---- MODULE Spec2Model ----
(***************************************************************************)
(* A verification model of three parts of PaddleMIX:                       *)
(*   - paddlemix/appflow/audio_asr.py : the AudioASRTask chain             *)
(*   - ppdiffusers/loaders/lora.py    : LoRA loading, fusing, unfusing     *)
(*   - ppdiffusers/pipelines/controlnet/pipeline_controlnet_img2img.py :   *)
(*     the ControlNet img2img denoising loop                               *)
(* Each part has its own specification (SpecASR, SpecLoad, SpecFuse,       *)
(* SpecLoop) over a shared list of variables; the variables of the other   *)
(* parts stay at their idle values.                                        *)
(*                                                                         *)
(* Strings that the code inspects (startswith, in, replace, split,         *)
(* format) are sequences of tokens; the tokens are chosen so that no       *)
(* pattern the code looks for can straddle or sit inside a token, so the   *)
(* token-level operations agree with the character-level ones.             *)
(***************************************************************************)
EXTENDS Integers, Sequences, FiniteSets, TLC

VARIABLES
    \* ---- AudioASRTask
    asr_inputs,   \* the shared input dict (one object, mutated in place)
    asr_in0,      \* history: the dict as it was handed to the task
    asr_pc,       \* position in the preprocess -> run_model -> postprocess chain
    asr_calls,    \* log of the calls made to the whisper executor
    asr_ret,      \* what the last method returned (a reference) or "None"
    \* ---- LoRA loading
    ld_args,      \* arguments of the load call and the answers of the outside world
    ld_pc,        \* "ready", "returned" or "raised"
    ld_err,       \* the exception that propagated, or "None"
    ld_lookups,   \* log of the _get_model_file calls: <<[name, ok]>>
    ld_sd,        \* the state dict load_lora_weights resolved (or NoDict)
    unet_lora,    \* what unet.load_attn_procs last received: [sd, alphas] or NotLoaded
    te_lora,      \* text_encoder:   [patched, sd]
    te2_lora,     \* text_encoder_2: [patched, sd]
    ld_log,       \* order of the component loads of this call
    ld_kohya,     \* history: what lora_state_dict did and returned for this call
    \* ---- LoRA fusing
    num_fused_loras,
    fz,           \* fused state of unet, text_encoder, text_encoder_2
    fz_hist,      \* history: the last two fuse/unfuse calls with the state before them
    \* ---- ControlNet img2img denoising loop
    lp_args,      \* arguments of __call__ after broadcasting
    lp_pc,        \* position in __call__
    lp_i,         \* loop index i
    lp_timesteps, \* the timestep list the loop enumerates
    lp_keep,      \* controlnet_keep
    lp_events,    \* events of the current iteration, in order
    lp_scales,    \* cond_scale handed to the controlnet at each step so far
    lp_latents,   \* number of times the latents have been replaced
    lp_iters,     \* number of completed iterations
    lp_in0,       \* history: the arguments as they were passed to __call__
    lp_embeds,    \* prompt_embeds as _encode_prompt returned them
    lp_batch,     \* per iteration: how many copies of the latents the model input holds
    lp_pred,      \* per iteration: the noise prediction handed to scheduler.step
    lp_callbacks, \* log of the calls of the user callback
    lp_pre,       \* what __call__ did before the loop: error, calls made, pipeline state, batches
    lp_shapes,    \* per iteration: the batch sizes of what the controlnet and the unet were given
    \* ---- text-encoder monkey patching and unloading
    pt_pipe,      \* the pipeline: [sdxl, has2] (which mixin, has it a text_encoder_2)
    pt_unet,      \* TRUE when the unet's LoRA-compatible layers hold a LoRA layer
    pt_te,        \* text_encoder: projection name -> [wraps, lora]
    pt_te2,       \* text_encoder_2 likewise (never touched when absent)
    pt_last,      \* history: the last call, its arguments, outcome and the state before
    pt_n,         \* number of calls made
    \* ---- saving LoRA weights from the processes of a distributed run
    sv_args,      \* arguments of save_lora_weights and the answers of the outside world
    sv_pc,        \* per process: "ready", "write", "returned" or "raised"
    sv_err,       \* per process: the exception that propagated, or "None"
    sv_dir,       \* TRUE when save_directory exists as a directory
    sv_events     \* log of the file-system calls: <<[proc, op, name, state_dict, save_function]>>

asrVars  == <<asr_inputs, asr_in0, asr_pc, asr_calls, asr_ret>>
loadVars == <<ld_args, ld_pc, ld_err, ld_lookups, ld_sd, unet_lora, te_lora, te2_lora, ld_log,
             ld_kohya>>
fuseVars == <<num_fused_loras, fz, fz_hist>>
loopVars == <<lp_args, lp_pc, lp_i, lp_timesteps, lp_keep, lp_events, lp_scales, lp_latents, lp_iters,
              lp_in0, lp_embeds, lp_batch, lp_pred, lp_callbacks, lp_pre, lp_shapes>>
patchVars == <<pt_pipe, pt_unet, pt_te, pt_te2, pt_last, pt_n>>
saveVars == <<sv_args, sv_pc, sv_err, sv_dir, sv_events>>
vars     == <<asrVars, loadVars, fuseVars, loopVars, patchVars, saveVars>>

(***************************************************************************)
(* Generic helpers                                                         *)
(***************************************************************************)
Range(f) == {f[x] : x \in DOMAIN f}

SeqsUpTo(S, n) == UNION {[1..m -> S] : m \in 0..n}

\* Python: seq starts with pat
StartsWith(seq, pat) ==
    /\ Len(seq) >= Len(pat)
    /\ SubSeq(seq, 1, Len(pat)) = pat

\* Python: pat in seq (substring)
Contains(seq, pat) ==
    \E j \in 1..(Len(seq) - Len(pat) + 1) : SubSeq(seq, j, j + Len(pat) - 1) = pat

(***************************************************************************)
(* AudioASRTask  (paddlemix/appflow/audio_asr.py)                          *)
(***************************************************************************)
MaxTmpl == 2

None == <<"#None">>          \* Python None, as a value of a dict entry
InputsRef == "inputs"        \* the identity of the dict handed to the task

TmplToks == {"txt", "{}", "{0}", "{{"}
Templates == SeqsUpTo(TmplToks, MaxTmpl)
Texts == {<<"hello">>, <<"bye">>}

ASRKeys == {"audio", "prompt", "model", "sample_rate", "lang"}
ASRVals(k) ==
    CASE k = "audio"       -> {None, <<"a.wav">>}
      [] k = "prompt"      -> {None} \cup Templates
      [] k = "model"       -> {<<"whisper-large">>}
      [] k = "sample_rate" -> {<<"8000">>}
      [] OTHER             -> {<<"en">>}

\* a dict: every key is absent or maps to one of its values
Absent == <<"#absent">>
Opt(k) == ASRVals(k) \cup {Absent}
MkDict(f) == [k \in {x \in ASRKeys : f[x] # Absent} |-> f[k]]
InputDicts ==
    { MkDict([audio |-> a, prompt |-> p, model |-> m, sample_rate |-> r, lang |-> l])
        : a \in Opt("audio"), p \in Opt("prompt"), m \in Opt("model"),
          r \in Opt("sample_rate"), l \in Opt("lang") }

\* dict.get(k, default)
Get(d, k, default) == IF k \in DOMAIN d THEN d[k] ELSE default

\* the two assertions of _preprocess
PreprocessOkAudioOnly(inputs) == Get(inputs, "audio", None) # None
PreprocessOk(inputs) ==
    /\ Get(inputs, "audio", None) # None
    /\ Get(inputs, "prompt", None) # None

\* str.format with one positional argument, scanning left to right:
\* auto tells whether an automatically numbered field "{}" has been used,
\* manual whether a manually numbered one "{0}" has.
RECURSIVE FormatFrom(_, _, _, _, _)
FormatFrom(tmpl, text, j, auto, manual) ==
    IF j > Len(tmpl) THEN [raised |-> FALSE, out |-> <<>>]
    ELSE LET tok == tmpl[j] IN
         IF tok = "{}" THEN
             IF auto \/ manual THEN [raised |-> TRUE, out |-> <<>>]
             ELSE LET r == FormatFrom(tmpl, text, j + 1, TRUE, manual)
                  IN [raised |-> r.raised, out |-> text \o r.out]
         ELSE IF tok = "{0}" THEN
             IF auto THEN [raised |-> TRUE, out |-> <<>>]
             ELSE LET r == FormatFrom(tmpl, text, j + 1, auto, TRUE)
                  IN [raised |-> r.raised, out |-> text \o r.out]
         ELSE LET r == FormatFrom(tmpl, text, j + 1, auto, manual)
              IN [raised |-> r.raised,
                  out |-> <<(IF tok = "{{" THEN "{" ELSE tok)>> \o r.out]

FormatIdentity(tmpl, text) == [raised |-> FALSE, out |-> tmpl]
Format(tmpl, text) == FormatFrom(tmpl, text, 1, FALSE, FALSE)

\* the keyword arguments _run_model hands to the executor
ExecutorArgs(inputs) ==
    [model       |-> Get(inputs, "model", <<"whisper">>),
     task        |-> Get(inputs, "task", <<"transcribe">>),
     sample_rate |-> Get(inputs, "sample_rate", <<"16000">>),
     config      |-> Get(inputs, "config", None),
     ckpt_path   |-> Get(inputs, "ckpt_path", None),
     audio_file  |-> inputs["audio"]]

ASRIdle ==
    /\ asr_inputs = <<>> /\ asr_in0 = <<>> /\ asr_pc = "idle"
    /\ asr_calls = <<>> /\ asr_ret = "None"

ASRInit ==
    /\ asr_inputs \in InputDicts
    /\ asr_in0 = asr_inputs
    /\ asr_pc = "start"
    /\ asr_calls = <<>>
    /\ asr_ret = "None"

\* _preprocess: two assertions, then return inputs
Preprocess ==
    /\ asr_pc = "start"
    /\ IF PreprocessOk(asr_inputs)
       THEN /\ asr_pc' = "preprocessed"
            /\ asr_ret' = InputsRef
       ELSE /\ asr_pc' = "assert_failed"
            /\ asr_ret' = "None"
    /\ UNCHANGED <<asr_inputs, asr_in0, asr_calls>>

\* _run_model: the executor call (which may itself raise), then the merge
RunModel ==
    /\ asr_pc = "preprocessed"
    /\ \E text \in Texts, execOk \in BOOLEAN :
         LET call == [args |-> ExecutorArgs(asr_inputs), ok |-> execOk, text |-> text]
             f    == Format(asr_inputs["prompt"], text)
         IN /\ asr_calls' = Append(asr_calls, call)
            /\ IF execOk /\ ~f.raised
               THEN /\ asr_inputs' = [asr_inputs EXCEPT !["prompt"] = f.out]
                    /\ asr_pc' = "ran"
                    /\ asr_ret' = InputsRef
               ELSE /\ asr_inputs' = asr_inputs
                    /\ asr_pc' = "run_raised"
                    /\ asr_ret' = "None"
    /\ UNCHANGED asr_in0

\* _postprocess: return inputs
Postprocess ==
    /\ asr_pc = "ran"
    /\ asr_pc' = "done"
    /\ asr_ret' = InputsRef
    /\ UNCHANGED <<asr_inputs, asr_in0, asr_calls>>

(***************************************************************************)
(* LoRA loading  (ppdiffusers/loaders/lora.py)                             *)
(*                                                                         *)
(* A state-dict key is a sequence of tokens, "." being a token of its own: *)
(* "text_encoder_2.w.lora" is <<"text_encoder","_","2",".","w",".","lora">>.*)
(* "w" stands for the path of the one attention module of a text encoder,  *)
(* "lora" for the parameter suffix "out_proj.lora_linear_layer.up.weight"  *)
(* and "alpha" for "to_out_lora.down.weight.alpha".  A dict is an ordered  *)
(* sequence of items [k, v] with distinct keys (a Python dict keeps the    *)
(* insertion order, and a comprehension lets the later item win).          *)
(***************************************************************************)
MaxKeys == 2

TEXT_ENCODER_NAME == <<"text_encoder">>
UNET_NAME == <<"unet">>
TEXT_ENCODER_2 == <<"text_encoder", "_", "2">>
DOT == <<".">>
LORA == <<"lora">>

TORCH_LORA_WEIGHT_NAME == <<"pytorch_lora_weights", ".bin">>
TORCH_LORA_WEIGHT_NAME_SAFE == <<"pytorch_lora_weights", ".safetensors">>
PADDLE_LORA_WEIGHT_NAME == <<"paddle_lora_weights", ".pdparams">>
PADDLE_LORA_WEIGHT_NAME_SAFE == <<"paddle_lora_weights", ".safetensors">>

KeyPool ==
    { <<"unet", ".", "w", ".", "lora">>,
      <<"unet", ".", "unet", ".", "w", ".", "lora">>,
      <<"unet", ".", "text_encoder", ".", "w", ".", "lora">>,
      <<"unet", ".", "w">>,
      <<"unet", "_", "2", ".", "w", ".", "lora">>,
      <<"text_encoder", ".", "w", ".", "lora">>,
      <<"text_encoder", ".", "text_encoder", ".", "w", ".", "lora">>,
      <<"text_encoder", ".", "w">>,
      <<"text_encoder", "_", "2", ".", "w", ".", "lora">>,
      <<"text_encoder", "_", "2", ".", "text_encoder", ".", "w", ".", "lora">>,
      <<"w", ".", "lora">>,
      <<"lora", "_", "unet", "_", "w", ".", "lora">>,
      <<"lora", "_", "te", "_", "w", ".", "lora">> }

AlphaPool ==
    { <<"unet", ".", "w", ".", "alpha">>,
      <<"unet", ".", "unet", ".", "w", ".", "alpha">>,
      <<"text_encoder", ".", "w", ".", "alpha">>,
      <<"text_encoder", ".", "x", ".", "alpha">>,
      <<"text_encoder", "_", "2", ".", "w", ".", "alpha">> }

\* the tensor stored under a key of an input dict: every entry has its own
Tensor(k) == <<"tensor of">> \o k
Item(k) == [k |-> k, v |-> Tensor(k)]

DistinctSeqs(S, n) == {s \in SeqsUpTo(S, n) : \A a, b \in DOMAIN s : a # b => s[a] # s[b]}
ItemSeq(ks) == [j \in DOMAIN ks |-> Item(ks[j])]

StateDicts == {ItemSeq(ks) : ks \in DistinctSeqs(KeyPool, MaxKeys)}

NoAlphas == [none |-> TRUE, d |-> <<>>]
SomeAlphas(ks) == [none |-> FALSE, d |-> ItemSeq(ks)]
AlphaDicts ==
    {NoAlphas} \cup {SomeAlphas(<<>>)} \cup {SomeAlphas(<<a>>) : a \in AlphaPool}
    \cup { SomeAlphas(<<<<"unet", ".", "w", ".", "alpha">>, <<"text_encoder", ".", "w", ".", "alpha">>>>),
           SomeAlphas(<<<<"unet", ".", "w", ".", "alpha">>, <<"unet", ".", "unet", ".", "w", ".", "alpha">>>>),
           SomeAlphas(<<<<"unet", ".", "unet", ".", "w", ".", "alpha">>, <<"unet", ".", "w", ".", "alpha">>>>) }

KeysOf(od) == {od[j].k : j \in DOMAIN od}
AsMap(od) == {<<od[j].k, od[j].v>> : j \in DOMAIN od}
MapKeys(m) == {p[1] : p \in m}

\* str.endswith
EndsWith(seq, pat) ==
    /\ Len(seq) >= Len(pat)
    /\ SubSeq(seq, Len(seq) - Len(pat) + 1, Len(seq)) = pat

\* str.replace(pat, ""): every non-overlapping occurrence, left to right
RECURSIVE ReplaceAll(_, _)
ReplaceAll(s, pat) ==
    IF Len(s) < Len(pat) THEN s
    ELSE IF StartsWith(s, pat) THEN ReplaceAll(SubSeq(s, Len(pat) + 1, Len(s)), pat)
    ELSE <<Head(s)>> \o ReplaceAll(Tail(s), pat)

\* k.split(".")[0]
RECURSIVE FirstSegment(_)
FirstSegment(s) ==
    IF s = <<>> \/ Head(s) = "." THEN <<>>
    ELSE <<Head(s)>> \o FirstSegment(Tail(s))

\* {k.replace(pat, ""): v for k, v in items}: a later item overwrites an
\* earlier one that was renamed to the same key
RECURSIVE Renamed(_, _)
Renamed(od, pat) ==
    IF od = <<>> THEN {}
    ELSE LET last == od[Len(od)]
             nk   == ReplaceAll(last.k, pat)
             rest == Renamed(SubSeq(od, 1, Len(od) - 1), pat)
         IN {q \in rest : q[1] # nk} \cup {<<nk, last.v>>}

(***************************************************************************)
(* lora_state_dict                                                         *)
(***************************************************************************)
NoName == <<>>
WeightNames == {NoName, <<"my_lora", ".safetensors">>, <<"my_lora", ".bin">>}
UseSafetensorsArgs == {"None", "True", "False"}

\* the condition under which the .safetensors lookup is made
TrySafetensors(a) ==
    LET use_safetensors == IF a.use_safetensors = "None" THEN TRUE
                           ELSE a.use_safetensors = "True"
    IN \/ (use_safetensors /\ a.weight_name = NoName)
       \/ (a.weight_name # NoName /\ EndsWith(a.weight_name, <<".safetensors">>))

\* weights_name of the first _get_model_file call
SafeName(a) ==
    IF a.from_diffusers
    THEN (IF a.weight_name # NoName THEN a.weight_name ELSE TORCH_LORA_WEIGHT_NAME_SAFE)
    ELSE (IF a.weight_name # NoName THEN a.weight_name ELSE PADDLE_LORA_WEIGHT_NAME_SAFE)

\* weights_name of the second _get_model_file call
PickleName(a) ==
    IF a.from_diffusers
    THEN (IF a.weight_name # NoName THEN a.weight_name ELSE TORCH_LORA_WEIGHT_NAME)
    ELSE (IF a.weight_name # NoName THEN a.weight_name ELSE PADDLE_LORA_WEIGHT_NAME)

\* the _get_model_file calls of one lora_state_dict call, in order, with the
\* answers a.ok1, a.ok2 of the hub / file system
Lookups(a) ==
    IF a.is_dict THEN <<>>
    ELSE LET first == IF TrySafetensors(a)
                      THEN <<[name |-> SafeName(a), ok |-> a.ok1]>> ELSE <<>>
             found == first # <<>> /\ a.ok1
         IN IF found THEN first
            ELSE first \o <<[name |-> PickleName(a), ok |-> a.ok2]>>

KohyaPrefixes ==
    { <<"lora", "_", "te", "_">>, <<"lora", "_", "unet", "_">>,
      <<"lora", "_", "te", "1", "_">>, <<"lora", "_", "te", "2", "_">> }

\* a lora_state_dict that converts as soon as one key has a Kohya prefix
SomeKeyKohya(od) == \E k \in KeysOf(od) : \E p \in KohyaPrefixes : StartsWith(k, p)

IsKohya(od) == \A k \in KeysOf(od) : \E p \in KohyaPrefixes : StartsWith(k, p)

\* _convert_kohya_lora_to_diffusers: the component prefix replaces the Kohya one
ConvertKohyaKey(k) ==
    IF StartsWith(k, <<"lora", "_", "unet", "_">>)
        THEN UNET_NAME \o DOT \o SubSeq(k, 5, Len(k))
    ELSE IF StartsWith(k, <<"lora", "_", "te", "2", "_">>)
        THEN TEXT_ENCODER_2 \o DOT \o SubSeq(k, 6, Len(k))
    ELSE IF StartsWith(k, <<"lora", "_", "te", "1", "_">>)
        THEN TEXT_ENCODER_NAME \o DOT \o SubSeq(k, 6, Len(k))
    ELSE TEXT_ENCODER_NAME \o DOT \o SubSeq(k, 5, Len(k))

ConvertKohya(od) ==
    [sd |-> [j \in DOMAIN od |-> [k |-> ConvertKohyaKey(od[j].k), v |-> od[j].v]],
     alphas |-> [none |-> FALSE, d |-> <<>>]]

\* _maybe_map_sgm_blocks_to_diffusers: block indices are not part of the keys modelled
MaybeMapSgmBlocks(od, unet_config) == od

\* lora_state_dict: [raised, sd, alphas, from_diffusers, lookups, steps]; steps
\* lists the conversion functions called, in order
LoraStateDict(a, unet_config) ==
    LET lk      == Lookups(a)
        missing == ~a.is_dict /\ ~lk[Len(lk)].ok
        sd0     == IF a.is_dict THEN a.sd ELSE a.file_sd
        fd      == IF a.is_dict THEN a.from_diffusers
                   ELSE IF a.data_format = "pt" THEN TRUE
                   ELSE IF a.data_format = "pd" THEN FALSE
                   ELSE a.from_diffusers
    IN IF missing
       THEN [raised |-> TRUE, sd |-> <<>>, alphas |-> NoAlphas,
             from_diffusers |-> a.from_diffusers, lookups |-> lk, steps |-> <<>>]
       ELSE IF IsKohya(sd0)
       THEN LET mapped == IF unet_config THEN MaybeMapSgmBlocks(sd0, unet_config) ELSE sd0
                c == ConvertKohya(mapped)
            IN [raised |-> FALSE, sd |-> c.sd, alphas |-> c.alphas,
                from_diffusers |-> fd, lookups |-> lk,
                steps |-> (IF unet_config THEN <<"_maybe_map_sgm_blocks_to_diffusers">> ELSE <<>>)
                          \o <<"_convert_kohya_lora_to_diffusers">>]
       ELSE [raised |-> FALSE, sd |-> sd0, alphas |-> NoAlphas,
             from_diffusers |-> fd, lookups |-> lk, steps |-> <<>>]

\* what the lora_state_dict call of a top-level load did
NoLoraStateDictCall == [called |-> FALSE, raised |-> FALSE, sd |-> <<>>, alphas |-> NoAlphas,
                        steps |-> <<>>]
LoraStateDictCall(a) ==
    IF a.call \in {"load_lora_weights", "sdxl_load_lora_weights"}
    THEN LET r == LoraStateDict(a, a.call = "sdxl_load_lora_weights")
         IN [called |-> TRUE, raised |-> r.raised, sd |-> r.sd, alphas |-> r.alphas,
             steps |-> r.steps]
    ELSE NoLoraStateDictCall

(***************************************************************************)
(* load_lora_into_unet                                                     *)
(***************************************************************************)
NotLoaded == [loaded |-> FALSE, sd |-> {}, alphas |-> [none |-> TRUE, m |-> {}], warned |-> FALSE]

IsNewFormat(od) ==
    \A k \in KeysOf(od) : StartsWith(k, UNET_NAME) \/ StartsWith(k, TEXT_ENCODER_NAME)

\* what load_lora_into_unet hands to unet.load_attn_procs
UnetPayload(od, alphas) ==
    IF IsNewFormat(od)
    THEN LET unet_items == SelectSeq(od, LAMBDA p : StartsWith(p.k, UNET_NAME))
         IN [loaded |-> TRUE,
             sd     |-> Renamed(unet_items, UNET_NAME \o DOT),
             alphas |-> IF alphas.none THEN [none |-> TRUE, m |-> {}]
                        ELSE [none |-> FALSE,
                              m |-> Renamed(SelectSeq(alphas.d,
                                                      LAMBDA p : StartsWith(p.k, UNET_NAME)),
                                            UNET_NAME \o DOT)],
             warned |-> FALSE]
    ELSE [loaded |-> TRUE,
          sd     |-> AsMap(od),
          alphas |-> IF alphas.none THEN [none |-> TRUE, m |-> {}]
                     ELSE [none |-> FALSE, m |-> AsMap(alphas.d)],
          warned |-> TRUE]

(***************************************************************************)
(* load_lora_into_text_encoder and _modify_text_encoder                    *)
(***************************************************************************)
Unpatched == [patched |-> FALSE, mlp |-> FALSE, sd |-> {}]

AttnModules == {<<"w">>}
MlpModules == {<<"w", ".", "mlp">>}
RankKey(name) == name \o DOT \o LORA
RankKeyFc1(name) == name \o DOT \o <<"fc1">> \o DOT \o LORA
RankKeyFc2(name) == name \o DOT \o <<"fc2">> \o DOT \o LORA
\* the network_alphas keys _modify_text_encoder pops
ConsumedAlphas(patch_mlp) ==
    {name \o DOT \o <<"alpha">> : name \in AttnModules}
    \cup (IF patch_mlp
          THEN {name \o DOT \o <<"fc1">> \o DOT \o <<"alpha">> : name \in MlpModules}
               \cup {name \o DOT \o <<"fc2">> \o DOT \o <<"alpha">> : name \in MlpModules}
          ELSE {})

\* convert_state_dict_to_ppdiffusers renames PEFT-style parameter names; the
\* keys modelled are already in the ppdiffusers naming, which it leaves as they are
ConvertStateDictToPPDiffusers(m) == m

\* the items load_lora_into_text_encoder selects for prefix
TextEncoderItems(od, prefix) ==
    SelectSeq(od, LAMBDA p : StartsWith(p.k, prefix) /\ FirstSegment(p.k) = prefix)

\* load_lora_into_text_encoder: [te, err]
IntoTextEncoder(od, alphas, te, prefix) ==
    IF ~(\E k \in KeysOf(od) : Contains(k, TEXT_ENCODER_NAME))
    THEN [te |-> te, err |-> "None"]
    ELSE
      LET tsd0 == Renamed(TextEncoderItems(od, prefix), prefix \o DOT) IN
      IF tsd0 = {} THEN [te |-> te, err |-> "None"]
      ELSE
        LET tsd       == ConvertStateDictToPPDiffusers(tsd0)
            keys      == MapKeys(tsd)
            patch_mlp == \E k \in keys : Contains(k, <<".", "mlp", ".">>)
            have_rank == /\ \A n \in AttnModules : RankKey(n) \in keys
                         /\ patch_mlp =>
                              \A n \in MlpModules : /\ RankKeyFc1(n) \in keys
                                                    /\ RankKeyFc2(n) \in keys
            al        == IF alphas.none THEN {}
                         ELSE MapKeys(Renamed(TextEncoderItems(alphas.d, prefix), prefix \o DOT))
            leftover  == al \ ConsumedAlphas(patch_mlp)
        IN IF ~have_rank THEN [te |-> te, err |-> "KeyError"]
           ELSE IF leftover # {}
           THEN \* _modify_text_encoder raises after it has patched the projections
                [te |-> [patched |-> TRUE, mlp |-> te.mlp \/ patch_mlp, sd |-> {}],
                 err |-> "ValueError: network_alphas"]
           ELSE [te |-> [patched |-> TRUE, mlp |-> te.mlp \/ patch_mlp, sd |-> tsd],
                 err |-> "None"]

(***************************************************************************)
(* load_lora_weights (LoraLoaderMixin and StableDiffusionXLLoraLoaderMixin)*)
(***************************************************************************)
NoDict == [some |-> FALSE, sd |-> <<>>]

\* is_correct_format = all("lora" in key for key in state_dict.keys())
IsCorrectFormatAny(od) == \E k \in KeysOf(od) : Contains(k, LORA)
IsCorrectFormat(od) == \A k \in KeysOf(od) : Contains(k, LORA)

Outcome(pc, err, lookups, sd, unet, te, te2, log) ==
    [pc |-> pc, err |-> err, lookups |-> lookups, sd |-> sd,
     unet |-> unet, te |-> te, te2 |-> te2, log |-> log]

\* a load_lora_weights that would undo the unet load when the text encoder
\* load raises (the code has no such handler)
LoadLoraWeightsWithRollback(a, unet, te, te2) ==
    LET r == LoraStateDict(a, FALSE) IN
    IF r.raised
    THEN Outcome("raised", "EnvironmentError", r.lookups, NoDict, unet, te, te2, <<>>)
    ELSE LET sd == [some |-> TRUE, sd |-> r.sd] IN
    IF ~IsCorrectFormat(r.sd)
    THEN Outcome("raised", "ValueError: Invalid LoRA checkpoint.", r.lookups, sd,
                 unet, te, te2, <<>>)
    ELSE IF ~a.unet_ok
    THEN Outcome("raised", "load_attn_procs raised", r.lookups, sd, unet, te, te2, <<"unet">>)
    ELSE LET u == UnetPayload(r.sd, r.alphas)
             t == IntoTextEncoder(r.sd, r.alphas, te, TEXT_ENCODER_NAME)
         IN IF t.err = "None"
            THEN Outcome("returned", t.err, r.lookups, sd, u, t.te, te2,
                         <<"unet", "text_encoder">>)
            ELSE Outcome("raised", t.err, r.lookups, sd, unet, te, te2,
                         <<"unet", "text_encoder">>)

\* LoraLoaderMixin.load_lora_weights on a pipeline whose components are unet, te
LoadLoraWeightsOutcome(a, unet, te, te2) ==
    LET r == LoraStateDict(a, FALSE) IN
    IF r.raised
    THEN Outcome("raised", "EnvironmentError", r.lookups, NoDict, unet, te, te2, <<>>)
    ELSE LET sd == [some |-> TRUE, sd |-> r.sd] IN
    IF ~IsCorrectFormat(r.sd)
    THEN Outcome("raised", "ValueError: Invalid LoRA checkpoint.", r.lookups, sd,
                 unet, te, te2, <<>>)
    ELSE IF ~a.unet_ok
    THEN Outcome("raised", "load_attn_procs raised", r.lookups, sd, unet, te, te2, <<"unet">>)
    ELSE LET u == UnetPayload(r.sd, r.alphas)
             t == IntoTextEncoder(r.sd, r.alphas, te, TEXT_ENCODER_NAME)
         IN Outcome(IF t.err = "None" THEN "returned" ELSE "raised", t.err, r.lookups, sd,
                    u, t.te, te2, <<"unet", "text_encoder">>)

\* StableDiffusionXLLoraLoaderMixin.load_lora_weights
SDXLLoadLoraWeightsOutcome(a, unet, te, te2) ==
    LET r == LoraStateDict(a, TRUE) IN
    IF r.raised
    THEN Outcome("raised", "EnvironmentError", r.lookups, NoDict, unet, te, te2, <<>>)
    ELSE LET sd == [some |-> TRUE, sd |-> r.sd] IN
    IF ~IsCorrectFormat(r.sd)
    THEN Outcome("raised", "ValueError: Invalid LoRA checkpoint.", r.lookups, sd,
                 unet, te, te2, <<>>)
    ELSE IF ~a.unet_ok
    THEN Outcome("raised", "load_attn_procs raised", r.lookups, sd, unet, te, te2, <<"unet">>)
    ELSE
      LET u    == UnetPayload(r.sd, r.alphas)
          sd1  == SelectSeq(r.sd, LAMBDA p : Contains(p.k, TEXT_ENCODER_NAME \o DOT))
          sd2  == SelectSeq(r.sd, LAMBDA p : Contains(p.k, TEXT_ENCODER_2 \o DOT))
          t1   == IF Len(sd1) > 0 THEN IntoTextEncoder(sd1, r.alphas, te, TEXT_ENCODER_NAME)
                  ELSE [te |-> te, err |-> "None"]
          log1 == IF Len(sd1) > 0 THEN <<"unet", "text_encoder">> ELSE <<"unet">>
      IN IF t1.err # "None"
         THEN Outcome("raised", t1.err, r.lookups, sd, u, t1.te, te2, log1)
         ELSE
           LET t2   == IF Len(sd2) > 0 THEN IntoTextEncoder(sd2, r.alphas, te2, TEXT_ENCODER_2)
                       ELSE [te |-> te2, err |-> "None"]
               log2 == IF Len(sd2) > 0 THEN Append(log1, "text_encoder_2") ELSE log1
           IN Outcome(IF t2.err = "None" THEN "returned" ELSE "raised", t2.err, r.lookups, sd,
                      u, t1.te, t2.te, log2)

DefaultArgs ==
    [call |-> "none", is_dict |-> TRUE, sd |-> <<>>, alphas |-> NoAlphas, prefix |-> <<>>,
     use_safetensors |-> "None", weight_name |-> NoName, from_diffusers |-> FALSE,
     ok1 |-> TRUE, ok2 |-> TRUE, file_sd |-> <<>>, data_format |-> "pd", unet_ok |-> TRUE]

FileDicts ==
    { ItemSeq(<<<<"unet", ".", "w", ".", "lora">>, <<"text_encoder", ".", "w", ".", "lora">>>>),
      ItemSeq(<<<<"unet", ".", "w">>>>),
      ItemSeq(<<<<"lora", "_", "unet", "_", "w", ".", "lora">>>>) }

TopCalls == {"load_lora_weights", "sdxl_load_lora_weights"}

\* a few dicts for the calls whose other arguments vary
SmallDicts ==
    FileDicts \cup
    { <<>>,
      ItemSeq(<<<<"unet", ".", "unet", ".", "w", ".", "lora">>>>),
      ItemSeq(<<<<"text_encoder", ".", "w", ".", "lora">>,
                <<"text_encoder", "_", "2", ".", "w", ".", "lora">>>>),
      ItemSeq(<<<<"w", ".", "lora">>, <<"text_encoder", ".", "w", ".", "lora">>>>) }

\* dicts whose text encoder part lacks the parameters of a module to patch
MlpDicts ==
    { ItemSeq(<<<<"unet", ".", "w", ".", "lora">>,
                <<"text_encoder", ".", "w", ".", "mlp", ".", "fc1", ".", "lora">>>>),
      ItemSeq(<<<<"text_encoder", ".", "w", ".", "mlp", ".", "fc1", ".", "lora">>>>) }

\* the calls the model makes: a top-level load of a dict, a top-level load of a
\* path, or a direct call of one of the two class methods
IsLoadArgs(x) ==
    \/ \E c \in TopCalls, sd \in StateDicts :
         x = [DefaultArgs EXCEPT !.call = c, !.sd = sd]
    \/ \E c \in TopCalls, sd \in SmallDicts :
         x = [DefaultArgs EXCEPT !.call = c, !.sd = sd, !.unet_ok = FALSE]
    \/ \E c \in TopCalls, sd \in MlpDicts :
         x = [DefaultArgs EXCEPT !.call = c, !.sd = sd]
    \/ \E c \in TopCalls, us \in UseSafetensorsArgs, wn \in WeightNames, fd \in BOOLEAN,
          o \in BOOLEAN \X BOOLEAN, fsd \in FileDicts, df \in {"pt", "pd"} :
         x = [DefaultArgs EXCEPT !.call = c, !.is_dict = FALSE, !.use_safetensors = us,
                                 !.weight_name = wn, !.from_diffusers = fd, !.ok1 = o[1],
                                 !.ok2 = o[2], !.file_sd = fsd, !.data_format = df]
    \/ \E sd \in StateDicts :
         x = [DefaultArgs EXCEPT !.call = "load_lora_into_unet", !.sd = sd]
    \/ \E sd \in SmallDicts, al \in AlphaDicts :
         x = [DefaultArgs EXCEPT !.call = "load_lora_into_unet", !.sd = sd, !.alphas = al]
    \/ \E sd \in StateDicts, p \in {TEXT_ENCODER_NAME, TEXT_ENCODER_2} :
         x = [DefaultArgs EXCEPT !.call = "load_lora_into_text_encoder", !.sd = sd,
                                 !.prefix = p]
    \/ \E sd \in SmallDicts, al \in AlphaDicts, p \in {TEXT_ENCODER_NAME, TEXT_ENCODER_2} :
         x = [DefaultArgs EXCEPT !.call = "load_lora_into_text_encoder", !.sd = sd,
                                 !.alphas = al, !.prefix = p]

LoadIdle ==
    /\ ld_args = DefaultArgs /\ ld_pc = "idle" /\ ld_err = "None" /\ ld_lookups = <<>>
    /\ ld_sd = NoDict /\ unet_lora = NotLoaded /\ te_lora = Unpatched /\ te2_lora = Unpatched
    /\ ld_log = <<>>
    /\ ld_kohya = NoLoraStateDictCall

LoadInit ==
    /\ IsLoadArgs(ld_args)
    /\ ld_pc = "ready"
    /\ ld_err = "None"
    /\ ld_lookups = <<>>
    /\ ld_sd = NoDict
    /\ unet_lora = NotLoaded
    /\ te_lora = Unpatched
    /\ te2_lora = Unpatched
    /\ ld_log = <<>>
    /\ ld_kohya = NoLoraStateDictCall

Apply(o) ==
    /\ ld_pc' = o.pc
    /\ ld_err' = o.err
    /\ ld_lookups' = o.lookups
    /\ ld_sd' = o.sd
    /\ unet_lora' = o.unet
    /\ te_lora' = o.te
    /\ te2_lora' = o.te2
    /\ ld_log' = o.log
    /\ ld_kohya' = LoraStateDictCall(ld_args)
    /\ UNCHANGED ld_args

LoadLoraWeights ==
    /\ ld_pc = "ready"
    /\ ld_args.call = "load_lora_weights"
    /\ Apply(LoadLoraWeightsOutcome(ld_args, unet_lora, te_lora, te2_lora))

SDXLLoadLoraWeights ==
    /\ ld_pc = "ready"
    /\ ld_args.call = "sdxl_load_lora_weights"
    /\ Apply(SDXLLoadLoraWeightsOutcome(ld_args, unet_lora, te_lora, te2_lora))

\* LoraLoaderMixin.load_lora_into_unet called on its own
LoadLoraIntoUnet ==
    /\ ld_pc = "ready"
    /\ ld_args.call = "load_lora_into_unet"
    /\ Apply(Outcome("returned", "None", <<>>, [some |-> TRUE, sd |-> ld_args.sd],
                     UnetPayload(ld_args.sd, ld_args.alphas), te_lora, te2_lora, <<"unet">>))

\* LoraLoaderMixin.load_lora_into_text_encoder called on its own, with a prefix
LoadLoraIntoTextEncoder ==
    /\ ld_pc = "ready"
    /\ ld_args.call = "load_lora_into_text_encoder"
    /\ IF ld_args.prefix = TEXT_ENCODER_2
       THEN LET t == IntoTextEncoder(ld_args.sd, ld_args.alphas, te2_lora, ld_args.prefix)
            IN Apply(Outcome(IF t.err = "None" THEN "returned" ELSE "raised", t.err, <<>>,
                             [some |-> TRUE, sd |-> ld_args.sd], unet_lora, te_lora, t.te,
                             <<"text_encoder_2">>))
       ELSE LET t == IntoTextEncoder(ld_args.sd, ld_args.alphas, te_lora, ld_args.prefix)
            IN Apply(Outcome(IF t.err = "None" THEN "returned" ELSE "raised", t.err, <<>>,
                             [some |-> TRUE, sd |-> ld_args.sd], unet_lora, t.te, te2_lora,
                             <<"text_encoder">>))

(***************************************************************************)
(* fuse_lora / unfuse_lora                                                 *)
(*                                                                         *)
(* A component is [lora, fused]: lora tells whether LoRA layers are        *)
(* attached (for a text encoder: q_proj is a PatchedLoraProjection), fused *)
(* whether their weights are currently merged into the base weights.       *)
(* present tells whether the pipeline has the attribute at all.            *)
(***************************************************************************)
MaxFused == 2

Comp(present, lora, fused) == [present |-> present, lora |-> lora, fused |-> fused]

\* unet.fuse_lora / PatchedLoraProjection._fuse_lora: merges attached LoRA weights
FuseComp(c) == IF c.present /\ c.lora THEN [c EXCEPT !.fused = TRUE] ELSE c
\* unet.unfuse_lora / PatchedLoraProjection._unfuse_lora: takes merged weights out
UnfuseComp(c) == IF c.present /\ c.lora THEN [c EXCEPT !.fused = FALSE] ELSE c

\* the counter update of fuse_lora
NumAfterFuse(n, fuse_unet, fuse_text_encoder) ==
    IF fuse_unet \/ fuse_text_encoder THEN n + 1 ELSE n
\* the counter update of unfuse_lora
NumAfterUnfuse(n, unfuse_unet, unfuse_text_encoder) == n - 1

FuseIdle ==
    /\ num_fused_loras = 0
    /\ fz = [unet |-> Comp(TRUE, FALSE, FALSE), te |-> Comp(TRUE, FALSE, FALSE),
             te2 |-> Comp(FALSE, FALSE, FALSE)]
    /\ fz_hist = <<>>

FuseInit ==
    /\ num_fused_loras = 0
    /\ \E ul, tl, t2p, t2l \in BOOLEAN :
         /\ t2l => t2p
         /\ fz = [unet |-> Comp(TRUE, ul, FALSE), te |-> Comp(TRUE, tl, FALSE),
                  te2 |-> Comp(t2p, t2l, FALSE)]
    /\ fz_hist = <<>>

Remember(op, a, b) ==
    LET now == [op |-> op, a |-> a, b |-> b, n |-> num_fused_loras, fz |-> fz]
    IN IF fz_hist = <<>> THEN <<now>> ELSE <<fz_hist[Len(fz_hist)], now>>

FuseLora ==
    \E fuse_unet, fuse_text_encoder \in BOOLEAN :
      /\ num_fused_loras < MaxFused
      /\ num_fused_loras' = NumAfterFuse(num_fused_loras, fuse_unet, fuse_text_encoder)
      /\ fz' = [unet |-> IF fuse_unet THEN FuseComp(fz.unet) ELSE fz.unet,
                te   |-> IF fuse_text_encoder THEN FuseComp(fz.te) ELSE fz.te,
                te2  |-> IF fuse_text_encoder THEN FuseComp(fz.te2) ELSE fz.te2]
      /\ fz_hist' = Remember("fuse", fuse_unet, fuse_text_encoder)

UnfuseLora ==
    \E unfuse_unet, unfuse_text_encoder \in BOOLEAN :
      /\ num_fused_loras > -MaxFused
      /\ num_fused_loras' = NumAfterUnfuse(num_fused_loras, unfuse_unet, unfuse_text_encoder)
      /\ fz' = [unet |-> IF unfuse_unet THEN UnfuseComp(fz.unet) ELSE fz.unet,
                te   |-> IF unfuse_text_encoder THEN UnfuseComp(fz.te) ELSE fz.te,
                te2  |-> IF unfuse_text_encoder THEN UnfuseComp(fz.te2) ELSE fz.te2]
      /\ fz_hist' = Remember("unfuse", unfuse_unet, unfuse_text_encoder)

\* set_lora_layer(None) / lora_linear_layer = None: the LoRA layers are detached,
\* weights that were merged into the base weights stay merged
UnloadComp(c) == IF c.present THEN [c EXCEPT !.lora = FALSE] ELSE c

\* unload_lora_weights as seen by the fuse bookkeeping: it never reads or
\* writes num_fused_loras
UnloadLoraWeightsFused ==
    /\ num_fused_loras' = num_fused_loras
    /\ fz' = [unet |-> UnloadComp(fz.unet), te |-> UnloadComp(fz.te),
              te2 |-> UnloadComp(fz.te2)]
    /\ fz_hist' = Remember("unload", FALSE, FALSE)

(***************************************************************************)
(* StableDiffusionControlNetImg2ImgPipeline.__call__                       *)
(*                                                                         *)
(* Fractions (control_guidance_start / _end, strength) are numerators over *)
(* Den; the comparisons of the code are made on cross-multiplied integers. *)
(* Conditioning scales and guidance_scale are in tenths.                   *)
(***************************************************************************)
MaxSteps == 4
Den == 4

Fracs == 0..Den
Strengths == {Den \div 2, Den}
GuidanceScales == {5, 10, 75}
NetCounts == {2}
\* self.scheduler.order: first-order (DDIM, PNDM, ...) and second-order (Heun, KDPM2)
Orders == {1, 2}
CallbackStepsArgs == {1, 2, 3}

Scalar(x) == [list |-> FALSE, v |-> <<x>>]
List(v) == [list |-> TRUE, v |-> v]
Repeat(x, n) == [j \in 1..n |-> x]

\* the number of controlnets: len(controlnet.nets), or 1 for a ControlNetModel
Mult(a) == IF a.multi THEN a.nets ELSE 1

\* lines 665-681: a scalar window bound is repeated to the length of the other
\* argument when that one is a list, and once per controlnet when neither is
BroadcastStart(a) ==
    IF ~a.start.list /\ a.end.list THEN Repeat(a.start.v[1], Len(a.end.v))
    ELSE IF ~a.start.list /\ ~a.end.list THEN Repeat(a.start.v[1], Mult(a))
    ELSE a.start.v
BroadcastEnd(a) ==
    IF ~a.start.list /\ a.end.list THEN a.end.v
    ELSE IF ~a.end.list /\ a.start.list THEN Repeat(a.end.v[1], Len(a.start.v))
    ELSE IF ~a.start.list /\ ~a.end.list THEN Repeat(a.end.v[1], Mult(a))
    ELSE a.end.v

Min(x, y) == IF x < y THEN x ELSE y
Max(x, y) == IF x > y THEN x ELSE y

\* zip(xs, ys): the pairs up to the shorter length
ZipLen(xs, ys) == Min(Len(xs), Len(ys))

\* a window test that lets start = end through
CheckWindowsAllowingEmpty(start, end, a) ==
    IF Len(start) # Len(end) THEN "ValueError: lengths differ"
    ELSE IF a.multi /\ Len(start) # a.nets THEN "ValueError: not one window per controlnet"
    ELSE IF \E j \in 1..ZipLen(start, end) :
              start[j] > end[j] \/ start[j] < 0 \/ end[j] > Den
         THEN "ValueError: window"
    ELSE "ok"

\* check_inputs, the control-guidance part
CheckWindows(start, end, a) ==
    IF Len(start) # Len(end) THEN "ValueError: lengths differ"
    ELSE IF a.multi /\ Len(start) # a.nets THEN "ValueError: not one window per controlnet"
    ELSE IF \E j \in 1..ZipLen(start, end) :
              start[j] >= end[j] \/ start[j] < 0 \/ end[j] > Den
         THEN "ValueError: window"
    ELSE "ok"

\* the arguments of __call__ that the runs of the denoising loop leave at
\* their usual values: one str prompt, one image per prompt, one init image,
\* one control image, no embeddings, no generator list
CallDefaults ==
    [prompt |-> "str", prompt_len |-> 1, prompt_embeds |-> 0, negative_prompt |-> FALSE,
     negative_prompt_embeds |-> 0, callback_steps_type |-> "int",
     num_images_per_prompt |-> 1, images |-> 1, image_is_latent |-> FALSE,
     control_images |-> 1, generator |-> 0, guess_mode |-> FALSE, lora_scale |-> FALSE,
     scale_nested |-> FALSE]

\* batch_size of __call__, _encode_prompt and check_image: 1 for a str prompt,
\* len(prompt) for a list, prompt_embeds.shape[0] otherwise (0 stands for None)
BatchSize(a) ==
    IF a.prompt = "str" THEN 1
    ELSE IF a.prompt = "list" THEN a.prompt_len
    ELSE a.prompt_embeds

\* check_image: the control image batch is 1 or the prompt batch
CheckImage(a) ==
    IF a.control_images # 1 /\ a.control_images # BatchSize(a)
    THEN "ValueError: image batch size" ELSE "ok"

\* check_inputs without the comparison of the embedding shapes
CheckInputsIgnoringShapes(a, start, end) ==
    IF a.callback_steps_type # "int" \/ a.callback_steps <= 0
    THEN "ValueError: callback_steps"
    ELSE IF a.prompt # "None" /\ a.prompt_embeds # 0
    THEN "ValueError: both prompt and prompt_embeds"
    ELSE IF a.prompt = "None" /\ a.prompt_embeds = 0
    THEN "ValueError: neither prompt nor prompt_embeds"
    ELSE IF a.prompt \notin {"None", "str", "list"}
    THEN "ValueError: prompt type"
    ELSE IF a.negative_prompt /\ a.negative_prompt_embeds # 0
    THEN "ValueError: both negative_prompt and negative_prompt_embeds"
    ELSE IF CheckImage(a) # "ok" THEN CheckImage(a)
    ELSE IF ~a.multi /\ a.scale.list THEN "TypeError: scale"
    ELSE IF a.multi /\ a.scale.list /\ a.scale_nested THEN "ValueError: nested scale"
    ELSE CheckWindows(start, end, a)

\* check_inputs, in the order of its tests.  The length test of a list
\* controlnet_conditioning_scale is the elif of `if isinstance(..., list)` and
\* so is never evaluated for a list.
CheckInputs(a, start, end) ==
    IF a.callback_steps_type # "int" \/ a.callback_steps <= 0
    THEN "ValueError: callback_steps"
    ELSE IF a.prompt # "None" /\ a.prompt_embeds # 0
    THEN "ValueError: both prompt and prompt_embeds"
    ELSE IF a.prompt = "None" /\ a.prompt_embeds = 0
    THEN "ValueError: neither prompt nor prompt_embeds"
    ELSE IF a.prompt \notin {"None", "str", "list"}
    THEN "ValueError: prompt type"
    ELSE IF a.negative_prompt /\ a.negative_prompt_embeds # 0
    THEN "ValueError: both negative_prompt and negative_prompt_embeds"
    ELSE IF /\ a.prompt_embeds # 0 /\ a.negative_prompt_embeds # 0
            /\ a.prompt_embeds # a.negative_prompt_embeds
    THEN "ValueError: embeds shapes"
    ELSE IF CheckImage(a) # "ok" THEN CheckImage(a)
    ELSE IF ~a.multi /\ a.scale.list THEN "TypeError: scale"
    ELSE IF a.multi /\ a.scale.list /\ a.scale_nested THEN "ValueError: nested scale"
    ELSE CheckWindows(start, end, a)

\* lines 695-698: a float scale is repeated once per controlnet
BroadcastScale(a) ==
    IF a.multi /\ ~a.scale.list THEN List(Repeat(a.scale.v[1], a.nets)) ELSE a.scale

\* scheduler.set_timesteps(n): a scheduler of order o makes o model evaluations
\* per inference step except for the last one, which takes a single evaluation
SchedulerLen(n, order) == IF n = 0 THEN 0 ELSE n * order - (order - 1)
SchedulerTimesteps(n, order) ==
    [j \in 1..SchedulerLen(n, order) |-> SchedulerLen(n, order) - j]

\* int(x) for x = num / Den: truncation towards zero
IntOf(num) == IF num >= 0 THEN num \div Den ELSE -((-num) \div Den)

\* get_timesteps: [timesteps, num_inference_steps]
GetTimesteps(n, strength, order) ==
    LET init_timestep == Min(IntOf(n * strength), n)
        t_start == Max(n - init_timestep, 0)
        all == SchedulerTimesteps(n, order)
    IN [timesteps |-> SubSeq(all, t_start * order + 1, Len(all)),
        num_inference_steps |-> n - t_start]

\* 1.0 - float(i / len(timesteps) < s or (i + 1) / len(timesteps) > e)
KeepIgnoringStart(i, n, s, e) == IF (i + 1) * Den > e * n THEN 0 ELSE 1
KeepIgnoringEnd(i, n, s, e) == IF i * Den < s * n THEN 0 ELSE 1
Keep(i, n, s, e) == IF (i * Den < s * n) \/ ((i + 1) * Den > e * n) THEN 0 ELSE 1

\* controlnet_keep: for every step the keeps of the windows (the first one alone
\* for a single ControlNetModel)
ControlnetKeep(n, start, end, multi) ==
    [j \in 1..n |->
       LET keeps == [k \in 1..ZipLen(start, end) |-> Keep(j - 1, n, start[k], end[k])]
       IN IF multi THEN List(keeps) ELSE Scalar(keeps[1])]

\* cond_scale of step i (lines 775-781)
CondScale(scale, keep) ==
    IF keep.list
    THEN List([k \in 1..ZipLen(scale.v, keep.v) |-> scale.v[k] * keep.v[k]])
    ELSE Scalar(scale.v[1] * keep.v[1])

DoClassifierFreeGuidanceFromOne(a) == a.guidance_scale >= 10
DoClassifierFreeGuidance(a) == a.guidance_scale > 10

\* _encode_prompt: the negative embeddings are concatenated in front under guidance
EncodePrompt(do_classifier_free_guidance) ==
    IF do_classifier_free_guidance THEN <<"negative_prompt_embeds", "prompt_embeds">>
    ELSE <<"prompt_embeds">>

\* latent_model_input = paddle.concat([latents] * 2) if do_classifier_free_guidance else latents
LatentModelInput(do_classifier_free_guidance) == IF do_classifier_free_guidance THEN 2 ELSE 1

\* guess_mode = guess_mode or global_pool_conditions (the controlnets modelled
\* have global_pool_conditions = False)
GuessMode(a) == a.guess_mode

\* _encode_prompt: the batch of the embeddings it returns
EncodePromptBatch(a) ==
    LET one == BatchSize(a) * a.num_images_per_prompt
    IN IF DoClassifierFreeGuidance(a) THEN 2 * one ELSE one

\* _encode_prompt: the text encoder calls it makes
EncodePromptCalls(a) ==
    (IF a.prompt_embeds = 0 THEN <<"text_encoder">> ELSE <<>>)
    \o (IF DoClassifierFreeGuidance(a) /\ a.negative_prompt_embeds = 0
        THEN <<"text_encoder">> ELSE <<>>)

\* a prepare_control_image that doubles the image under guidance in guess mode too
PrepareControlImageAlwaysDoubling(a) ==
    LET batch_size == BatchSize(a) * a.num_images_per_prompt
        repeat_by  == IF a.control_images = 1 THEN batch_size ELSE a.num_images_per_prompt
        image      == a.control_images * repeat_by
    IN IF DoClassifierFreeGuidance(a) THEN 2 * image ELSE image

\* prepare_control_image: the batch of the control image it returns
PrepareControlImage(a) ==
    LET batch_size == BatchSize(a) * a.num_images_per_prompt
        repeat_by  == IF a.control_images = 1 THEN batch_size ELSE a.num_images_per_prompt
        image      == a.control_images * repeat_by
    IN IF DoClassifierFreeGuidance(a) /\ ~GuessMode(a) THEN 2 * image ELSE image

\* prepare_latents: [err, batch, warned, encoded].  generator is the length of
\* the generator list (0: not a list); an init image that has 4 channels is
\* taken as latents and not encoded.
PrepareLatents(a) ==
    LET batch_size == BatchSize(a) * a.num_images_per_prompt
        bad_gen    == ~a.image_is_latent /\ a.generator # 0 /\ a.generator # batch_size
        \* image[i:i + 1] for i in range(batch_size): the slices past the end are empty
        init       == IF ~a.image_is_latent /\ a.generator # 0
                      THEN Min(a.images, batch_size) ELSE a.images
    IN IF bad_gen
       THEN [err |-> "ValueError: generator list", batch |-> 0, warned |-> FALSE,
             encoded |-> FALSE]
       ELSE IF batch_size > init /\ batch_size % init = 0
       THEN [err |-> "None", batch |-> (batch_size \div init) * init, warned |-> TRUE,
             encoded |-> ~a.image_is_latent]
       ELSE IF batch_size > init /\ batch_size % init # 0
       THEN [err |-> "ValueError: cannot duplicate image", batch |-> 0, warned |-> FALSE,
             encoded |-> ~a.image_is_latent]
       ELSE [err |-> "None", batch |-> init, warned |-> FALSE,
             encoded |-> ~a.image_is_latent]

\* what __call__ has done before the loop
NoPre ==
    [err |-> "None", calls |-> <<>>, lora_scale_set |-> FALSE, scheduler_set |-> FALSE,
     embeds |-> 0, control |-> 0, latents |-> 0, warned |-> FALSE,
     num_inference_steps |-> 0]

\* __call__ between check_inputs and the loop (lines 686-746)
Setup(a) ==
    LET pl == PrepareLatents(a)
    IN [err |-> pl.err,
        calls |-> <<"_encode_prompt">> \o EncodePromptCalls(a)
                  \o <<"image_processor.preprocess">>
                  \o Repeat("prepare_control_image", Mult(a))
                  \o <<"scheduler.set_timesteps", "get_timesteps", "prepare_latents">>
                  \o (IF pl.encoded THEN <<"vae.encode">> ELSE <<>>),
        lora_scale_set |-> a.lora_scale,
        scheduler_set |-> TRUE,
        embeds |-> EncodePromptBatch(a),
        control |-> PrepareControlImage(a),
        latents |-> pl.batch,
        warned |-> pl.warned,
        num_inference_steps |->
            GetTimesteps(a.num_inference_steps, a.strength, a.order).num_inference_steps]

\* the batches of iteration i (lines 763-806)
IterShapes(a, pre) ==
    LET cfg   == DoClassifierFreeGuidance(a)
        split == GuessMode(a) /\ cfg
        lmi   == LatentModelInput(cfg) * pre.latents
        cmi   == IF split THEN pre.latents ELSE lmi
    IN [latent_model_input |-> lmi,
        control_model_input |-> cmi,
        controlnet_prompt_embeds |-> IF split THEN pre.embeds \div 2 ELSE pre.embeds,
        controlnet_cond |-> pre.control,
        residuals |-> IF split THEN <<"zeros", "controlnet">> ELSE <<"controlnet">>,
        residuals_batch |-> IF split THEN 2 * cmi ELSE cmi,
        encoder_hidden_states |-> pre.embeds]

\* num_warmup_steps = len(timesteps) - num_inference_steps * self.scheduler.order
NumWarmupSteps(a) ==
    LET g == GetTimesteps(a.num_inference_steps, a.strength, a.order)
    IN Len(g.timesteps) - g.num_inference_steps * a.order

\* the progress bar is updated at iteration i (an inference step is complete)
ProgressDue(i, n, a) ==
    \/ i = n - 1
    \/ (i + 1 > NumWarmupSteps(a) /\ (i + 1) % a.order = 0)

\* the callback is called at iteration i
CallbackDue(i, n, a) ==
    /\ ProgressDue(i, n, a)
    /\ a.callback
    /\ i % a.callback_steps = 0

WindowArgs(k) == {Scalar(x) : x \in Fracs} \cup {List(v) : v \in [1..k -> Fracs]}

\* the runs: one controlnet with every window, several controlnets with every
\* window, and one controlnet with the default window under every scheduler
\* order and callback setting
LoopArgs ==
    { [multi |-> FALSE, nets |-> 1, start |-> st, end |-> en, scale |-> Scalar(8),
       guidance_scale |-> gs, num_inference_steps |-> n, strength |-> sg,
       order |-> 1, callback |-> TRUE, callback_steps |-> 1] @@ CallDefaults
        : st \in WindowArgs(1), en \in WindowArgs(1), gs \in {10, 75},
          n \in 1..MaxSteps, sg \in Strengths }
    \cup
    { [multi |-> TRUE, nets |-> k, start |-> w[1], end |-> w[2], scale |-> sc,
       guidance_scale |-> 75, num_inference_steps |-> n, strength |-> Den,
       order |-> 1, callback |-> TRUE, callback_steps |-> 1] @@ CallDefaults
        : k \in NetCounts, w \in UNION {WindowArgs(k) \X WindowArgs(k) : k \in NetCounts},
          sc \in {Scalar(8), List(<<5, 10>>)}, n \in 1..MaxSteps }
    \cup
    { [multi |-> FALSE, nets |-> 1, start |-> Scalar(0), end |-> Scalar(Den),
       scale |-> Scalar(8), guidance_scale |-> gs, num_inference_steps |-> n,
       strength |-> sg, order |-> o, callback |-> cb, callback_steps |-> cs]
      @@ CallDefaults
        : gs \in GuidanceScales, n \in 1..MaxSteps, sg \in Strengths, o \in Orders,
          cb \in BOOLEAN, cs \in CallbackStepsArgs }

LoopIdle ==
    /\ lp_args = <<>> /\ lp_pc = "idle" /\ lp_i = 0 /\ lp_timesteps = <<>>
    /\ lp_keep = <<>> /\ lp_events = <<>> /\ lp_scales = <<>> /\ lp_latents = 0
    /\ lp_iters = 0 /\ lp_in0 = <<>> /\ lp_embeds = <<>> /\ lp_batch = <<>>
    /\ lp_pred = <<>> /\ lp_callbacks = <<>> /\ lp_pre = NoPre /\ lp_shapes = <<>>

LoopInit ==
    /\ lp_args \in LoopArgs
    /\ lp_pc = "call"
    /\ lp_i = 0
    /\ lp_timesteps = <<>>
    /\ lp_keep = <<>>
    /\ lp_events = <<>>
    /\ lp_scales = <<>>
    /\ lp_latents = 0
    /\ lp_iters = 0
    /\ lp_in0 = lp_args
    /\ lp_embeds = <<>>
    /\ lp_batch = <<>>
    /\ lp_pred = <<>>
    /\ lp_callbacks = <<>>
    /\ lp_pre = NoPre
    /\ lp_shapes = <<>>

\* ---- the calls whose arguments check_inputs, prepare_latents and
\* get_timesteps have to deal with
MaxBatch == 2

CallBase ==
    [multi |-> FALSE, nets |-> 1, start |-> Scalar(0), end |-> Scalar(Den),
     scale |-> Scalar(8), guidance_scale |-> 75, num_inference_steps |-> 2,
     strength |-> Den, order |-> 1, callback |-> FALSE, callback_steps |-> 1]
    @@ CallDefaults

\* window bounds below 0 and above 1 included, lists of one and of two bounds
CallFracs == {0, Den \div 2, Den}
CallWindowArgs ==
    {Scalar(x) : x \in -1..(Den + 1)}
    \cup {List(v) : v \in [1..1 -> CallFracs] \cup [1..2 -> CallFracs]}

\* controlnet_conditioning_scale: a float, lists of one, two and three floats,
\* and a nested list
CallScaleArgs ==
    { [scale |-> Scalar(8), nested |-> FALSE], [scale |-> List(<<5>>), nested |-> FALSE],
      [scale |-> List(<<5, 10>>), nested |-> FALSE],
      [scale |-> List(<<5, 10, 8>>), nested |-> FALSE],
      [scale |-> List(<<5, 10>>), nested |-> TRUE] }

\* strength is not validated by this pipeline: negative values and values
\* above 1 reach get_timesteps
CallStrengths == {-2 * Den, -Den, -(Den \div 2), -1, 0, 1, Den \div 2, Den - 1, Den, 2 * Den}

IsCallArgs(x) ==
    \/ \E multi \in BOOLEAN, st, en \in CallWindowArgs, sc \in CallScaleArgs :
         x = [CallBase EXCEPT !.multi = multi, !.nets = IF multi THEN 2 ELSE 1,
                              !.start = st, !.end = en, !.scale = sc.scale,
                              !.scale_nested = sc.nested,
                              !.control_images = 1]
    \/ \E cst \in {"int", "None", "float"}, cs \in -1..2,
          pr \in {"None", "str", "list", "int"}, pe, ne \in 0..MaxBatch,
          np, ls \in BOOLEAN :
         x = [CallBase EXCEPT !.callback_steps_type = cst, !.callback_steps = cs,
                              !.prompt = pr, !.prompt_embeds = pe,
                              !.negative_prompt = np, !.negative_prompt_embeds = ne,
                              !.lora_scale = ls]
    \/ \E pr \in {"str", "list"}, b, n \in 1..MaxBatch, m \in 1..(MaxBatch * MaxBatch),
          c \in 1..MaxBatch, gs \in {5, 75}, gm, lat \in BOOLEAN,
          gen \in 0..(MaxBatch * MaxBatch) :
         /\ pr = "str" => b = 1
         /\ x = [CallBase EXCEPT !.prompt = pr, !.prompt_len = b,
                                 !.num_images_per_prompt = n, !.images = m,
                                 !.control_images = c, !.guidance_scale = gs,
                                 !.guess_mode = gm, !.image_is_latent = lat,
                                 !.generator = gen]
    \/ \E sg \in CallStrengths, n \in 1..MaxSteps, o \in Orders :
         x = [CallBase EXCEPT !.strength = sg, !.num_inference_steps = n, !.order = o]

CallInit ==
    /\ IsCallArgs(lp_args)
    /\ lp_pc = "call"
    /\ lp_i = 0
    /\ lp_timesteps = <<>>
    /\ lp_keep = <<>>
    /\ lp_events = <<>>
    /\ lp_scales = <<>>
    /\ lp_latents = 0
    /\ lp_iters = 0
    /\ lp_in0 = lp_args
    /\ lp_embeds = <<>>
    /\ lp_batch = <<>>
    /\ lp_pred = <<>>
    /\ lp_callbacks = <<>>
    /\ lp_pre = NoPre
    /\ lp_shapes = <<>>

\* __call__ up to the loop: broadcast, check_inputs, the embeddings, the images,
\* the timesteps, the latents, controlnet_keep
Call ==
    /\ lp_pc = "call"
    /\ LET start == BroadcastStart(lp_args)
           end   == BroadcastEnd(lp_args)
           chk   == CheckInputs(lp_args, start, end)
           ts    == GetTimesteps(lp_args.num_inference_steps, lp_args.strength,
                                 lp_args.order).timesteps
           pre   == Setup(lp_args)
       IN IF chk # "ok"
          THEN /\ lp_pc' = "raised"
               /\ lp_pre' = [lp_pre EXCEPT !.err = chk]
               /\ UNCHANGED <<lp_args, lp_timesteps, lp_keep, lp_embeds>>
          ELSE IF pre.err # "None"
          THEN /\ lp_pc' = "raised"
               /\ lp_pre' = pre
               /\ lp_embeds' = EncodePrompt(DoClassifierFreeGuidance(lp_args))
               /\ UNCHANGED <<lp_args, lp_timesteps, lp_keep>>
          ELSE /\ lp_pc' = "loop"
               /\ lp_pre' = pre
               /\ lp_embeds' = EncodePrompt(DoClassifierFreeGuidance(lp_args))
               /\ lp_args' = [lp_args EXCEPT !.start = List(start), !.end = List(end),
                                             !.scale = BroadcastScale(lp_args)]
               /\ lp_timesteps' = ts
               /\ lp_keep' = ControlnetKeep(Len(ts), start, end, lp_args.multi)
    /\ UNCHANGED <<lp_i, lp_events, lp_scales, lp_latents, lp_iters, lp_in0, lp_batch,
                   lp_pred, lp_callbacks, lp_shapes>>

\* the pc after the unet call: the guidance recombination only with guidance
AfterUnetNoGuidance(a) == "step"
AfterUnet(a) == IF DoClassifierFreeGuidance(a) THEN "guidance" ELSE "step"

\* for i, t in enumerate(timesteps): the controlnet call of iteration i
IterControlnet ==
    /\ lp_pc = "loop"
    /\ lp_i < Len(lp_timesteps)
    /\ lp_events' = Append(lp_events, <<lp_i, "controlnet">>)
    /\ lp_scales' = Append(lp_scales, CondScale(lp_args.scale, lp_keep[lp_i + 1]))
    /\ lp_batch' = Append(lp_batch, LatentModelInput(DoClassifierFreeGuidance(lp_args)))
    /\ lp_shapes' = Append(lp_shapes, IterShapes(lp_args, lp_pre))
    /\ lp_pc' = "unet"
    /\ UNCHANGED <<lp_args, lp_i, lp_timesteps, lp_keep, lp_latents, lp_iters, lp_in0,
                   lp_embeds, lp_pred, lp_callbacks, lp_pre>>

IterUnet ==
    /\ lp_pc = "unet"
    /\ lp_events' = Append(lp_events, <<lp_i, "unet">>)
    /\ lp_pc' = AfterUnet(lp_args)
    /\ UNCHANGED <<lp_args, lp_i, lp_timesteps, lp_keep, lp_scales, lp_latents, lp_iters,
                   lp_in0, lp_embeds, lp_batch, lp_pred, lp_callbacks, lp_pre, lp_shapes>>

\* noise_pred = noise_pred_uncond + guidance_scale * (noise_pred_text - noise_pred_uncond)
IterGuidance ==
    /\ lp_pc = "guidance"
    /\ lp_events' = Append(lp_events, <<lp_i, "guidance">>)
    /\ lp_pc' = "step"
    /\ UNCHANGED <<lp_args, lp_i, lp_timesteps, lp_keep, lp_scales, lp_latents, lp_iters,
                   lp_in0, lp_embeds, lp_batch, lp_pred, lp_callbacks, lp_pre, lp_shapes>>

\* latents = scheduler.step(noise_pred, t, latents, ...)[0]
IterStep ==
    /\ lp_pc = "step"
    /\ lp_events' = Append(lp_events, <<lp_i, "scheduler.step">>)
    /\ lp_pred' = Append(lp_pred, IF lp_events[Len(lp_events)] = <<lp_i, "guidance">>
                                  THEN "uncond + guidance_scale * (text - uncond)"
                                  ELSE "unet output")
    /\ lp_latents' = lp_latents + 1
    /\ lp_iters' = lp_iters + 1
    /\ lp_pc' = "callback"
    /\ UNCHANGED <<lp_args, lp_i, lp_timesteps, lp_keep, lp_scales, lp_in0, lp_embeds,
                   lp_batch, lp_callbacks, lp_pre, lp_shapes>>

\* the end of the iteration: progress bar and callback(i, t, latents), then on
\* to the next timestep
IterCallback ==
    /\ lp_pc = "callback"
    /\ lp_callbacks' =
         IF CallbackDue(lp_i, Len(lp_timesteps), lp_args)
         THEN Append(lp_callbacks, [i |-> lp_i, t |-> lp_timesteps[lp_i + 1],
                                    latents |-> lp_latents, events |-> Len(lp_events)])
         ELSE lp_callbacks
    /\ lp_i' = lp_i + 1
    /\ lp_pc' = "loop"
    /\ UNCHANGED <<lp_args, lp_timesteps, lp_keep, lp_events, lp_scales, lp_latents,
                   lp_iters, lp_in0, lp_embeds, lp_batch, lp_pred, lp_pre, lp_shapes>>

\* the loop is exhausted: decode and return
Finish ==
    /\ lp_pc = "loop"
    /\ lp_i >= Len(lp_timesteps)
    /\ lp_pc' = "done"
    /\ UNCHANGED <<lp_args, lp_i, lp_timesteps, lp_keep, lp_events, lp_scales, lp_latents,
                   lp_iters, lp_in0, lp_embeds, lp_batch, lp_pred, lp_callbacks, lp_pre, lp_shapes>>

(***************************************************************************)
(* _modify_text_encoder, _remove_text_encoder_monkey_patch and             *)
(* unload_lora_weights                                                     *)
(*                                                                         *)
(* A text encoder has one attention module (q_proj, k_proj, v_proj,        *)
(* out_proj) and one MLP module (fc1, fc2).  A projection is [wraps, lora]:*)
(* wraps counts the PatchedLoraProjection wrappers around the original     *)
(* linear layer, lora tells whether lora_linear_layer is set.              *)
(***************************************************************************)
MaxCalls == 3

AttnProjs == {"q_proj", "k_proj", "v_proj", "out_proj"}
MlpProjs == {"fc1", "fc2"}
Projs == AttnProjs \cup MlpProjs

Plain == [wraps |-> 0, lora |-> FALSE]
FreshEncoder == [p \in Projs |-> Plain]

\* isinstance(x, PatchedLoraProjection)
IsPatched(x) == x.wraps > 0

\* _remove_text_encoder_monkey_patch_classmethod: lora_linear_layer = None, for
\* the attention projections when q_proj is patched, for the MLP ones when fc1 is
RemoveAttnOnly(te) ==
    [p \in Projs |->
       IF p \in AttnProjs /\ IsPatched(te["q_proj"]) THEN [te[p] EXCEPT !.lora = FALSE]
       ELSE te[p]]
RemoveTextEncoderMonkeyPatchClassmethod(te) ==
    [p \in Projs |->
       IF p \in AttnProjs /\ IsPatched(te["q_proj"]) THEN [te[p] EXCEPT !.lora = FALSE]
       ELSE IF p \in MlpProjs /\ IsPatched(te["fc1"]) THEN [te[p] EXCEPT !.lora = FALSE]
       ELSE te[p]]

\* create_patched_linear_lora: a new PatchedLoraProjection around the regular
\* linear layer of model (model itself when it is not patched)
CreateAroundModel(model) == [wraps |-> model.wraps + 1, lora |-> TRUE]
CreatePatchedLinearLora(model) ==
    LET linear_layer == IF IsPatched(model) THEN model.wraps - 1 ELSE model.wraps
    IN [wraps |-> linear_layer + 1, lora |-> TRUE]

\* the network_alphas and rank arguments of _modify_text_encoder
PatchAlphaPool ==
    { <<"w", ".", "alpha">>, <<"w", ".", "mlp", ".", "fc1", ".", "alpha">>,
      <<"w", ".", "mlp", ".", "fc2", ".", "alpha">>, <<"x", ".", "alpha">> }
PatchAlphas == {[none |-> TRUE, keys |-> {}]} \cup {[none |-> FALSE, keys |-> K] : K \in SUBSET PatchAlphaPool}
Ranks == {"int", "dict"}

\* _modify_text_encoder: [te, err, params]
ModifyTextEncoderOutcome(te, network_alphas, rank, patch_mlp) ==
    LET removed   == RemoveTextEncoderMonkeyPatchClassmethod(te)
        populated == ~network_alphas.none /\ network_alphas.keys # {}
        attn      == [p \in Projs |-> IF p \in AttnProjs THEN CreatePatchedLinearLora(removed[p])
                                      ELSE removed[p]]
        mlp       == [p \in Projs |-> IF p \in MlpProjs THEN CreatePatchedLinearLora(attn[p])
                                      ELSE attn[p]]
        leftover  == network_alphas.keys \ ConsumedAlphas(patch_mlp)
    IN IF patch_mlp /\ rank = "int"
       THEN \* rank.pop on an int, after the attention projections were patched
            [te |-> attn, err |-> "AttributeError", params |-> {}]
       ELSE LET done == IF patch_mlp THEN mlp ELSE attn IN
            IF populated /\ leftover # {}
            THEN [te |-> done, err |-> "ValueError: network_alphas", params |-> {}]
            ELSE [te |-> done, err |-> "None",
                  params |-> IF patch_mlp THEN Projs ELSE AttnProjs]

NoCall ==
    [op |-> "none", target |-> "none", network_alphas |-> [none |-> TRUE, keys |-> {}],
     rank |-> "int", patch_mlp |-> FALSE, err |-> "None", params |-> {},
     before |-> [unet |-> FALSE, te |-> FreshEncoder, te2 |-> FreshEncoder], prev |-> "none"]

PatchIdle ==
    /\ pt_pipe = [sdxl |-> FALSE, has2 |-> FALSE] /\ pt_unet = FALSE /\ pt_te = FreshEncoder
    /\ pt_te2 = FreshEncoder /\ pt_last = NoCall /\ pt_n = 0

\* a pipeline into which no LoRA has been loaded; an SDXL pipeline has both encoders
PatchInit ==
    /\ pt_pipe \in {[sdxl |-> FALSE, has2 |-> FALSE], [sdxl |-> FALSE, has2 |-> TRUE],
                    [sdxl |-> TRUE, has2 |-> TRUE]}
    /\ pt_unet = FALSE
    /\ pt_te = FreshEncoder
    /\ pt_te2 = FreshEncoder
    /\ pt_last = NoCall
    /\ pt_n = 0

Before == [unet |-> pt_unet, te |-> pt_te, te2 |-> pt_te2]

\* cls._modify_text_encoder(text_encoder, lora_scale, network_alphas, rank, patch_mlp)
ModifyTextEncoder ==
    /\ pt_n < MaxCalls
    /\ \E target \in {"text_encoder"} \cup (IF pt_pipe.has2 THEN {"text_encoder_2"} ELSE {}),
          al \in PatchAlphas, rank \in Ranks, patch_mlp \in BOOLEAN :
         LET o == ModifyTextEncoderOutcome(IF target = "text_encoder" THEN pt_te ELSE pt_te2,
                                           al, rank, patch_mlp)
         IN /\ pt_te' = IF target = "text_encoder" THEN o.te ELSE pt_te
            /\ pt_te2' = IF target = "text_encoder_2" THEN o.te ELSE pt_te2
            /\ pt_last' = [op |-> "_modify_text_encoder", target |-> target,
                           network_alphas |-> al, rank |-> rank, patch_mlp |-> patch_mlp,
                           err |-> o.err, params |-> o.params, before |-> Before,
                           prev |-> pt_last.op]
    /\ pt_n' = pt_n + 1
    /\ UNCHANGED <<pt_pipe, pt_unet>>

\* unet.load_attn_procs: the LoRA-compatible layers of the unet get their LoRA layers
LoadAttnProcs ==
    /\ pt_n < MaxCalls
    /\ pt_unet' = TRUE
    /\ pt_last' = [NoCall EXCEPT !.op = "load_attn_procs", !.target = "unet",
                                 !.before = Before, !.prev = pt_last.op]
    /\ pt_n' = pt_n + 1
    /\ UNCHANGED <<pt_pipe, pt_te, pt_te2>>

\* LoraLoaderMixin.unload_lora_weights with LoraLoaderMixin._remove_text_encoder_monkey_patch
UnloadLoraWeights ==
    /\ pt_n < MaxCalls
    /\ ~pt_pipe.sdxl
    /\ pt_unet' = FALSE
    /\ pt_te' = RemoveTextEncoderMonkeyPatchClassmethod(pt_te)
    /\ pt_te2' = IF pt_pipe.has2 THEN RemoveTextEncoderMonkeyPatchClassmethod(pt_te2) ELSE pt_te2
    /\ pt_last' = [NoCall EXCEPT !.op = "unload_lora_weights", !.target = "pipeline",
                                 !.before = Before, !.prev = pt_last.op]
    /\ pt_n' = pt_n + 1
    /\ UNCHANGED pt_pipe

\* unload_lora_weights of a pipeline with StableDiffusionXLLoraLoaderMixin, whose
\* _remove_text_encoder_monkey_patch takes both text encoders
SDXLUnloadLoraWeights ==
    /\ pt_n < MaxCalls
    /\ pt_pipe.sdxl
    /\ pt_unet' = FALSE
    /\ pt_te' = RemoveTextEncoderMonkeyPatchClassmethod(pt_te)
    /\ pt_te2' = RemoveTextEncoderMonkeyPatchClassmethod(pt_te2)
    /\ pt_last' = [NoCall EXCEPT !.op = "unload_lora_weights", !.target = "pipeline",
                                 !.before = Before, !.prev = pt_last.op]
    /\ pt_n' = pt_n + 1
    /\ UNCHANGED pt_pipe

(***************************************************************************)
(* save_lora_weights / write_lora_layers                                   *)
(*                                                                         *)
(* Every process of a distributed run makes the same call, is_main_process *)
(* apart.  A layers argument is [none, names]: None, or the module names   *)
(* of its state dict.  A state dict is a set of <<key, <<component,        *)
(* name>>>>: the parameter stored under each key.                          *)
(***************************************************************************)
NumProcs == 2
Procs == 1..NumProcs

NoLayers == [none |-> TRUE, names |-> {}]
Layers(names) == [none |-> FALSE, names |-> names]
LayerArgs == {NoLayers, Layers({}), Layers({<<"w">>}), Layers({<<"w">>, <<"v">>})}

\* truth value of a layers argument: None and the empty dict are falsy
Truthy(l) == ~l.none /\ l.names # {}

\* pack_weights / the dict comprehensions of save_lora_weights
PackWeights(l, prefix, comp) == {<<prefix \o DOT \o n, <<comp, n>>>> : n \in l.names}

\* LoraLoaderMixin.save_lora_weights: the flat dictionary
SaveStateDict(a) ==
    (IF ~a.unet.none THEN PackWeights(a.unet, UNET_NAME, "unet") ELSE {})
    \cup (IF ~a.te.none THEN PackWeights(a.te, TEXT_ENCODER_NAME, "text_encoder") ELSE {})

\* StableDiffusionXLLoraLoaderMixin.save_lora_weights: [err, sd]
SDXLSaveStateDict(a) ==
    IF ~(Truthy(a.unet) \/ Truthy(a.te) \/ Truthy(a.te2))
    THEN [err |-> "ValueError: You must pass at least one", sd |-> {}]
    ELSE [err |-> "None",
          sd  |-> (IF Truthy(a.unet) THEN PackWeights(a.unet, UNET_NAME, "unet") ELSE {})
                  \cup (IF Truthy(a.te) /\ Truthy(a.te2)
                        THEN PackWeights(a.te, TEXT_ENCODER_NAME, "text_encoder")
                             \cup PackWeights(a.te2, TEXT_ENCODER_2, "text_encoder_2")
                        ELSE {})]

SaveWeightNames ==
    {NoName, <<"my_lora", ".safetensors">>, <<"my_lora", ".bin">>,
     <<"paddle_lora_weights", ".pdparams">>}
\* "paddle" in weight_name.lower() or "pdparams" in weight_name.lower()
MentionsPaddle(name) == \E j \in DOMAIN name : name[j] \in {"paddle_lora_weights", ".pdparams"}
\* "torch" in weight_name.lower() or "bin" in weight_name.lower()
MentionsTorch(name) == \E j \in DOMAIN name : name[j] \in {"pytorch_lora_weights", ".bin"}

\* write_lora_layers: to_diffusers once weight_name has been looked at
ToDiffusers(a) ==
    LET td == IF a.to_diffusers = "None" THEN a.TO_DIFFUSERS ELSE a.to_diffusers = "True"
    IN IF a.weight_name = NoName THEN td
       ELSE IF MentionsPaddle(a.weight_name) THEN FALSE
       ELSE IF MentionsTorch(a.weight_name) THEN TRUE
       ELSE td

\* write_lora_layers: the file name written
SaveWeightName(a) ==
    IF a.weight_name # NoName THEN a.weight_name
    ELSE IF ToDiffusers(a)
         THEN (IF a.safe_serialization THEN TORCH_LORA_WEIGHT_NAME_SAFE ELSE TORCH_LORA_WEIGHT_NAME)
         ELSE (IF a.safe_serialization THEN PADDLE_LORA_WEIGHT_NAME_SAFE ELSE PADDLE_LORA_WEIGHT_NAME)

\* write_lora_layers: the save function chosen when none was passed
SaveFunction(a) ==
    IF ToDiffusers(a)
    THEN LET safe == a.safe_serialization \/ ~a.torch
         IN IF safe THEN (IF a.torch THEN "torch_safe_save_file pt" ELSE "np_safe_save_file pt")
            ELSE "torch.save"
    ELSE IF a.safe_serialization THEN "np_safe_save_file pd" ELSE "paddle.save"

DefaultSaveArgs ==
    [sdxl |-> FALSE, unet |-> NoLayers, te |-> NoLayers, te2 |-> NoLayers,
     is_main_process |-> [p \in Procs |-> TRUE], weight_name |-> NoName,
     safe_serialization |-> TRUE, to_diffusers |-> "None", TO_DIFFUSERS |-> FALSE,
     torch |-> FALSE, is_file |-> FALSE]

\* the calls the model makes: the layers varied, the naming arguments varied,
\* or is_main_process varied over the processes
IsSaveArgs(x) ==
    \/ \E sdxl \in BOOLEAN, u, t, t2 \in LayerArgs :
         /\ ~sdxl => t2 = NoLayers
         /\ x = [DefaultSaveArgs EXCEPT !.sdxl = sdxl, !.unet = u, !.te = t, !.te2 = t2]
    \/ \E sdxl \in BOOLEAN, wn \in SaveWeightNames, ss, g, torch, f \in BOOLEAN,
          td \in {"None", "True", "False"} :
         x = [DefaultSaveArgs EXCEPT !.sdxl = sdxl, !.unet = Layers({<<"w">>}),
                                     !.weight_name = wn, !.safe_serialization = ss,
                                     !.to_diffusers = td, !.TO_DIFFUSERS = g,
                                     !.torch = torch, !.is_file = f]
    \/ \E sdxl \in BOOLEAN, mp \in [Procs -> BOOLEAN], u \in LayerArgs :
         x = [DefaultSaveArgs EXCEPT !.sdxl = sdxl, !.unet = u, !.is_main_process = mp]

SaveIdle ==
    /\ sv_args = DefaultSaveArgs
    /\ sv_pc = [p \in Procs |-> "idle"]
    /\ sv_err = [p \in Procs |-> "None"]
    /\ sv_dir = FALSE
    /\ sv_events = <<>>

SaveInit ==
    /\ IsSaveArgs(sv_args)
    /\ sv_pc = [p \in Procs |-> "ready"]
    /\ sv_err = [p \in Procs |-> "None"]
    /\ sv_dir = FALSE
    /\ sv_events = <<>>

\* write_lora_layers up to os.makedirs; is_main_process is a parameter that the
\* body never reads
EnterWriteLoraLayers(p) ==
    IF sv_args.is_file
    THEN /\ sv_pc' = [sv_pc EXCEPT ![p] = "returned"]
         /\ UNCHANGED <<sv_dir, sv_events>>
    ELSE /\ sv_pc' = [sv_pc EXCEPT ![p] = "write"]
         /\ sv_dir' = TRUE
         /\ sv_events' = Append(sv_events, [proc |-> p, op |-> "makedirs", name |-> NoName,
                                            state_dict |-> {}, save_function |-> "None"])

\* the state dict process p hands to write_lora_layers
StateDictOf(a) == IF a.sdxl THEN SDXLSaveStateDict(a).sd ELSE SaveStateDict(a)

SaveLoraWeights ==
  \E p \in Procs :
    /\ sv_pc[p] = "ready"
    /\ ~sv_args.sdxl
    /\ EnterWriteLoraLayers(p)
    /\ UNCHANGED <<sv_args, sv_err>>

SDXLSaveLoraWeights ==
  \E p \in Procs :
    /\ sv_pc[p] = "ready"
    /\ sv_args.sdxl
    /\ IF SDXLSaveStateDict(sv_args).err # "None"
       THEN /\ sv_pc' = [sv_pc EXCEPT ![p] = "raised"]
            /\ sv_err' = [sv_err EXCEPT ![p] = SDXLSaveStateDict(sv_args).err]
            /\ UNCHANGED <<sv_args, sv_dir, sv_events>>
       ELSE /\ EnterWriteLoraLayers(p)
            /\ UNCHANGED <<sv_args, sv_err>>

\* write_lora_layers from the choice of the name to save_function(state_dict, path)
WriteLoraLayers ==
  \E p \in Procs :
    /\ sv_pc[p] = "write"
    /\ sv_pc' = [sv_pc EXCEPT ![p] = "returned"]
    /\ sv_events' = Append(sv_events, [proc |-> p, op |-> "write",
                                       name |-> SaveWeightName(sv_args),
                                       state_dict |-> StateDictOf(sv_args),
                                       save_function |-> SaveFunction(sv_args)])
    /\ UNCHANGED <<sv_args, sv_err, sv_dir>>

(***************************************************************************)
(* Specifications                                                          *)
(***************************************************************************)
InitASR == ASRInit /\ LoadIdle /\ FuseIdle /\ LoopIdle /\ PatchIdle /\ SaveIdle
NextASR ==
    \/ (Preprocess /\ UNCHANGED <<loadVars, fuseVars, loopVars, patchVars, saveVars>>)
    \/ (RunModel /\ UNCHANGED <<loadVars, fuseVars, loopVars, patchVars, saveVars>>)
    \/ (Postprocess /\ UNCHANGED <<loadVars, fuseVars, loopVars, patchVars, saveVars>>)
SpecASR == InitASR /\ [][NextASR]_vars

InitLoad == ASRIdle /\ LoadInit /\ FuseIdle /\ LoopIdle /\ PatchIdle /\ SaveIdle
NextLoad ==
    \/ (LoadLoraWeights /\ UNCHANGED <<asrVars, fuseVars, loopVars, patchVars, saveVars>>)
    \/ (SDXLLoadLoraWeights /\ UNCHANGED <<asrVars, fuseVars, loopVars, patchVars, saveVars>>)
    \/ (LoadLoraIntoUnet /\ UNCHANGED <<asrVars, fuseVars, loopVars, patchVars, saveVars>>)
    \/ (LoadLoraIntoTextEncoder /\ UNCHANGED <<asrVars, fuseVars, loopVars, patchVars, saveVars>>)
SpecLoad == InitLoad /\ [][NextLoad]_vars

InitFuse == ASRIdle /\ LoadIdle /\ FuseInit /\ LoopIdle /\ PatchIdle /\ SaveIdle
NextFuse ==
    \/ (FuseLora /\ UNCHANGED <<asrVars, loadVars, loopVars, patchVars, saveVars>>)
    \/ (UnfuseLora /\ UNCHANGED <<asrVars, loadVars, loopVars, patchVars, saveVars>>)
    \/ (UnloadLoraWeightsFused /\ UNCHANGED <<asrVars, loadVars, loopVars, patchVars, saveVars>>)
SpecFuse == InitFuse /\ [][NextFuse]_vars

InitLoop == ASRIdle /\ LoadIdle /\ FuseIdle /\ LoopInit /\ PatchIdle /\ SaveIdle
NextLoop ==
    \/ (Call /\ UNCHANGED <<asrVars, loadVars, fuseVars, patchVars, saveVars>>)
    \/ (IterControlnet /\ UNCHANGED <<asrVars, loadVars, fuseVars, patchVars, saveVars>>)
    \/ (IterUnet /\ UNCHANGED <<asrVars, loadVars, fuseVars, patchVars, saveVars>>)
    \/ (IterGuidance /\ UNCHANGED <<asrVars, loadVars, fuseVars, patchVars, saveVars>>)
    \/ (IterStep /\ UNCHANGED <<asrVars, loadVars, fuseVars, patchVars, saveVars>>)
    \/ (IterCallback /\ UNCHANGED <<asrVars, loadVars, fuseVars, patchVars, saveVars>>)
    \/ (Finish /\ UNCHANGED <<asrVars, loadVars, fuseVars, patchVars, saveVars>>)
SpecLoop == InitLoop /\ [][NextLoop]_vars

InitPatch == ASRIdle /\ LoadIdle /\ FuseIdle /\ LoopIdle /\ PatchInit /\ SaveIdle
NextPatch ==
    \/ (ModifyTextEncoder /\ UNCHANGED <<asrVars, loadVars, fuseVars, loopVars, saveVars>>)
    \/ (LoadAttnProcs /\ UNCHANGED <<asrVars, loadVars, fuseVars, loopVars, saveVars>>)
    \/ (UnloadLoraWeights /\ UNCHANGED <<asrVars, loadVars, fuseVars, loopVars, saveVars>>)
    \/ (SDXLUnloadLoraWeights /\ UNCHANGED <<asrVars, loadVars, fuseVars, loopVars, saveVars>>)
SpecPatch == InitPatch /\ [][NextPatch]_vars

InitCall == ASRIdle /\ LoadIdle /\ FuseIdle /\ CallInit /\ PatchIdle /\ SaveIdle
SpecCall == InitCall /\ [][NextLoop]_vars

InitSave == ASRIdle /\ LoadIdle /\ FuseIdle /\ LoopIdle /\ PatchIdle /\ SaveInit
NextSave ==
    \/ (SaveLoraWeights /\ UNCHANGED <<asrVars, loadVars, fuseVars, loopVars, patchVars>>)
    \/ (SDXLSaveLoraWeights /\ UNCHANGED <<asrVars, loadVars, fuseVars, loopVars, patchVars>>)
    \/ (WriteLoraLayers /\ UNCHANGED <<asrVars, loadVars, fuseVars, loopVars, patchVars>>)
SpecSave == InitSave /\ [][NextSave]_vars

(***************************************************************************)
(* Claims                                                                  *)
(***************************************************************************)
TopCall == ld_args.call \in TopCalls

\* C1: load_lora_weights (both mixins) rejects a resolved state dict that has a
\* key without "lora": ValueError("Invalid LoRA checkpoint.") is raised before
\* any component load is invoked, and unet and text encoders are unchanged.
C1_InvalidCheckpointRejected ==
    (/\ TopCall
     /\ ld_pc # "ready"
     /\ ld_sd.some
     /\ \E j \in DOMAIN ld_sd.sd : ~Contains(ld_sd.sd[j].k, LORA))
    => /\ ld_pc = "raised"
       /\ ld_err = "ValueError: Invalid LoRA checkpoint."
       /\ ld_log = <<>>
       /\ unet_lora = NotLoaded
       /\ te_lora = Unpatched
       /\ te2_lora = Unpatched

\* a checkpoint with one LoRA key and one key without "lora" has been rejected
\* by the SDXL mixin
C1_Witness ==
    /\ ld_args.call = "sdxl_load_lora_weights"
    /\ ld_pc = "raised"
    /\ ld_err = "ValueError: Invalid LoRA checkpoint."
    /\ Len(ld_sd.sd) = 2
    /\ \E j \in DOMAIN ld_sd.sd : Contains(ld_sd.sd[j].k, LORA)

\* the scale the controlnet k received at the j-th controlnet call of the run
AppliedScale(j, k) == lp_scales[j].v[IF lp_args.multi THEN k ELSE 1]
ConfiguredScale(k) == lp_args.scale.v[IF lp_args.multi THEN k ELSE 1]
NetsOf(j) == IF lp_args.multi THEN 1..Len(lp_scales[j].v) ELSE {1}
InLoop == lp_pc \in {"loop", "unet", "guidance", "step", "callback", "done"}

\* C2 as stated: at step i of N, controlnet k gets its configured scale exactly
\* when start[k] <= i/N < end[k], and scale 0 at every other step.
C2_WindowHalfOpenOnStepStart ==
    InLoop =>
      \A j \in DOMAIN lp_scales : \A k \in NetsOf(j) :
        LET i == j - 1
            n == Len(lp_timesteps)
            s == lp_args.start.v[k]
            e == lp_args.end.v[k]
        IN AppliedScale(j, k) =
             IF s * n <= i * Den /\ i * Den < e * n THEN ConfiguredScale(k) ELSE 0

\* C2 amended: at step i of N, controlnet k gets its configured scale exactly
\* when start[k] <= i/N and (i+1)/N <= end[k] (the whole step lies inside the
\* window), and scale 0 at every other step.
C2_WindowContainsWholeStep ==
    InLoop =>
      \A j \in DOMAIN lp_scales : \A k \in NetsOf(j) :
        LET i == j - 1
            n == Len(lp_timesteps)
            s == lp_args.start.v[k]
            e == lp_args.end.v[k]
        IN AppliedScale(j, k) =
             IF s * n <= i * Den /\ (i + 1) * Den <= e * n THEN ConfiguredScale(k) ELSE 0

\* a run with two controlnets in which the second one was switched off at a step
\* that starts inside its window but ends after it, while the first, with the
\* full window, kept its scale
C2_Witness ==
    /\ lp_pc = "done"
    /\ lp_args.multi
    /\ \E j \in DOMAIN lp_scales :
         /\ (j - 1) * Den < lp_args.end.v[2] * Len(lp_timesteps)
         /\ lp_args.start.v[2] * Len(lp_timesteps) <= (j - 1) * Den
         /\ AppliedScale(j, 2) = 0
         /\ AppliedScale(j, 1) = ConfiguredScale(1)
         /\ ConfiguredScale(2) # 0

ExpectedIter(i, cfg) ==
    <<<<i, "controlnet">>, <<i, "unet">>>>
    \o (IF cfg THEN <<<<i, "guidance">>>> ELSE <<>>)
    \o <<<<i, "scheduler.step">>>>
RECURSIVE ExpectedLog(_, _)
ExpectedLog(n, cfg) ==
    IF n = 0 THEN <<>> ELSE ExpectedLog(n - 1, cfg) \o ExpectedIter(n - 1, cfg)
IsPrefix(a, b) == Len(a) <= Len(b) /\ SubSeq(b, 1, Len(a)) = a

\* C3: the loop runs one iteration per entry of the timestep list, which is fixed
\* before the first iteration; in every iteration controlnet, unet, (with
\* guidance only) the recombination and scheduler.step happen once each in this
\* order, and the latents are replaced once per iteration, by scheduler.step.
C3_LoopOrder ==
    InLoop =>
      LET n   == Len(GetTimesteps(lp_args.num_inference_steps, lp_args.strength,
                                  lp_args.order).timesteps)
          cfg == lp_args.guidance_scale > 10
      IN /\ Len(lp_timesteps) = n
         /\ IsPrefix(lp_events, ExpectedLog(n, cfg))
         /\ lp_latents = Cardinality({j \in DOMAIN lp_events : lp_events[j][2] = "scheduler.step"})
         /\ lp_latents = lp_iters
         /\ lp_pc = "done" => (lp_events = ExpectedLog(n, cfg) /\ lp_iters = n)

\* a guided run of at least two iterations has finished
C3_Witness ==
    /\ lp_pc = "done"
    /\ lp_args.guidance_scale > 10
    /\ Len(lp_timesteps) >= 2
    /\ lp_latents = Len(lp_timesteps)
    /\ Len(lp_events) = 4 * Len(lp_timesteps)

Lacks(d, k) == k \notin DOMAIN d \/ d[k] = None

\* C4: _preprocess fails its assertion exactly when "audio" or "prompt" is missing
\* or None, never modifies the dict, and otherwise returns the very same dict.
C4_PreprocessValidates ==
    asr_pc \in {"preprocessed", "assert_failed"} =>
      /\ asr_inputs = asr_in0
      /\ (asr_pc = "assert_failed") <=> (Lacks(asr_in0, "audio") \/ Lacks(asr_in0, "prompt"))
      /\ asr_pc = "preprocessed" => asr_ret = InputsRef

\* the assertion failed on a dict that has an audio file but maps "prompt" to None
C4_Witness ==
    /\ asr_pc = "assert_failed"
    /\ ~Lacks(asr_in0, "audio")
    /\ "prompt" \in DOMAIN asr_in0
    /\ asr_in0["prompt"] = None

IsField(tok) == tok \in {"{}", "{0}"}

StripLeading(k, pat) == IF StartsWith(k, pat) THEN SubSeq(k, Len(pat) + 1, Len(k)) ELSE k

PickleFormat(name) == EndsWith(name, <<".bin">>) \/ EndsWith(name, <<".pdparams">>)

\* C6 as stated: for a path the safetensors name is looked up first (when
\* use_safetensors is not disabled and no weight_name is given, or weight_name
\* ends with .safetensors); if that lookup fails the pickle-format name (.bin /
\* .pdparams) is looked up; if that fails too the error propagates and no state
\* dict is returned.  For a dict there is no lookup and the dict is the state dict.
C6_SafetensorsThenPickle ==
    (TopCall /\ ld_pc # "ready") =>
      IF ld_args.is_dict
      THEN /\ ld_lookups = <<>>
           /\ ld_sd.some
           /\ ~IsKohya(ld_args.sd) => ld_sd.sd = ld_args.sd
      ELSE LET tried_safe ==
                 \/ (ld_args.use_safetensors # "False" /\ ld_args.weight_name = NoName)
                 \/ EndsWith(ld_args.weight_name, <<".safetensors">>)
               last == ld_lookups[Len(ld_lookups)]
           IN /\ Len(ld_lookups) \in {1, 2}
              /\ tried_safe => EndsWith(ld_lookups[1].name, <<".safetensors">>)
              /\ (tried_safe /\ ld_lookups[1].ok) => Len(ld_lookups) = 1
              /\ (tried_safe /\ ~ld_lookups[1].ok) =>
                    (Len(ld_lookups) = 2 /\ PickleFormat(ld_lookups[2].name))
              /\ ~tried_safe => (Len(ld_lookups) = 1 /\ PickleFormat(ld_lookups[1].name))
              /\ ~last.ok => (ld_pc = "raised" /\ ld_err = "EnvironmentError" /\ ~ld_sd.some)
              /\ last.ok => ld_sd.some

\* C7 as stated: within one lora_state_dict call a lookup that has failed is never
\* attempted again for the same file name.
C7_NoRetryOfFailedLookup ==
    \A j, k \in DOMAIN ld_lookups :
      (j < k /\ ~ld_lookups[j].ok) => ld_lookups[k].name # ld_lookups[j].name

\* C8 as stated: when all keys start with "unet" or "text_encoder", the unet
\* receives exactly one entry per key that starts with "unet", under that key
\* with only its leading "unet." removed and with its value, and nothing else;
\* network_alphas likewise.  Any other dict is passed unchanged, with a warning.
C8_UnetGetsItsPrefixStripped ==
    (ld_args.call = "load_lora_into_unet" /\ ld_pc = "returned") =>
      LET keys     == KeysOf(ld_args.sd)
          unetKeys == {k \in keys : StartsWith(k, UNET_NAME)}
          al       == ld_args.alphas
          alKeys   == {k \in KeysOf(al.d) : StartsWith(k, UNET_NAME)}
      IN IF \A k \in keys : StartsWith(k, UNET_NAME) \/ StartsWith(k, TEXT_ENCODER_NAME)
         THEN /\ unet_lora.sd = {<<StripLeading(k, UNET_NAME \o DOT), Tensor(k)>> : k \in unetKeys}
              /\ Cardinality(unet_lora.sd) = Cardinality(unetKeys)
              /\ unet_lora.alphas.none = al.none
              /\ unet_lora.alphas.m =
                   {<<StripLeading(k, UNET_NAME \o DOT), Tensor(k)>> : k \in alKeys}
              /\ ~unet_lora.warned
         ELSE /\ unet_lora.sd = AsMap(ld_args.sd)
              /\ unet_lora.alphas.none = al.none
              /\ unet_lora.alphas.m = AsMap(al.d)
              /\ unet_lora.warned

\* C9 as stated: load_lora_into_text_encoder with prefix P loads exactly the
\* entries whose first dot-separated segment is P, with the leading "P." removed;
\* nothing goes to the other text encoder or to the unet, and when no entry
\* matches P the text encoder is not patched.
C9_TextEncoderGetsItsPrefixStripped ==
    (ld_args.call = "load_lora_into_text_encoder" /\ ld_pc = "returned") =>
      LET P        == ld_args.prefix
          target   == IF P = TEXT_ENCODER_2 THEN te2_lora ELSE te_lora
          other    == IF P = TEXT_ENCODER_2 THEN te_lora ELSE te2_lora
          matching == {k \in KeysOf(ld_args.sd) : FirstSegment(k) = P}
      IN /\ target.sd = {<<StripLeading(k, P \o DOT), Tensor(k)>> : k \in matching}
         /\ matching = {} => target = Unpatched
         /\ other = Unpatched
         /\ unet_lora = NotLoaded

\* C10 as stated: fuse_lora(a, b) followed by unfuse_lora(a, b) returns the
\* pipeline to the state before the fuse, num_fused_loras included.
C10_UnfuseReversesFuse ==
    (/\ Len(fz_hist) = 2
     /\ fz_hist[1].op = "fuse"
     /\ fz_hist[2].op = "unfuse"
     /\ fz_hist[1].a = fz_hist[2].a
     /\ fz_hist[1].b = fz_hist[2].b)
    => /\ num_fused_loras = fz_hist[1].n
       /\ fz = fz_hist[1].fz

\* the window arguments after the broadcast are what the broadcast of the
\* arguments as passed should give
BroadcastAsStated ==
    LET a0    == lp_in0
        start == lp_args.start.v
        end   == lp_args.end.v
    IN /\ Len(start) = Len(end)
       /\ a0.start.list => start = a0.start.v
       /\ a0.end.list => end = a0.end.v
       /\ ~a0.start.list => \A k \in DOMAIN start : start[k] = a0.start.v[1]
       /\ ~a0.end.list => \A k \in DOMAIN end : end[k] = a0.end.v[1]
       /\ (~a0.start.list /\ ~a0.end.list) => Len(start) = Mult(a0)

DefaultWindow(k) == lp_args.start.v[k] = 0 /\ lp_args.end.v[k] = Den

\* the controlnets whose scale the run hands to a controlnet call
Nets == IF lp_args.multi THEN 1..lp_args.nets ELSE {1}

\* C11 as stated: scalar window bounds are broadcast to every controlnet; with
\* the default window a controlnet keeps its full scale at every step; with any
\* other window at least one denoising step of the run has its scale times 0.
C11_WindowSwitchesOff ==
    InLoop =>
      /\ BroadcastAsStated
      /\ \A k \in Nets :
           /\ DefaultWindow(k) =>
                \A j \in DOMAIN lp_scales : AppliedScale(j, k) = ConfiguredScale(k)
           /\ (lp_pc = "done" /\ ~DefaultWindow(k)) =>
                \E j \in DOMAIN lp_scales : AppliedScale(j, k) = 0

\* C11 amended: as stated, for the runs that have at least one denoising step (a
\* run whose timestep list is empty has no step that could be switched off).
C11_WindowSwitchesOffWhenStepsRun ==
    InLoop =>
      /\ BroadcastAsStated
      /\ \A k \in Nets :
           /\ DefaultWindow(k) =>
                \A j \in DOMAIN lp_scales : AppliedScale(j, k) = ConfiguredScale(k)
           /\ (lp_pc = "done" /\ ~DefaultWindow(k) /\ Len(lp_timesteps) >= 1) =>
                \E j \in DOMAIN lp_scales : AppliedScale(j, k) = 0

\* a finished run of two controlnets with a scalar start above 0 and a list of
\* ends: the first controlnet was switched off at one step and on at another
C11_Witness ==
    /\ lp_pc = "done"
    /\ lp_in0.multi
    /\ ~lp_in0.start.list
    /\ lp_in0.start.v[1] > 0
    /\ lp_in0.end.list
    /\ lp_args.start.v = <<lp_in0.start.v[1], lp_in0.start.v[1]>>
    /\ \E j \in DOMAIN lp_scales : AppliedScale(j, 1) = 0
    /\ \E j \in DOMAIN lp_scales : AppliedScale(j, 1) = ConfiguredScale(1)

CeilDiv(x, y) == (x + y - 1) \div y

\* C15 as stated: for a scheduler of any order the callback is called once per
\* callback_steps completed inference steps (at every completed step when
\* callback_steps is 1), after the scheduler step of its iteration, with that
\* iteration's index, timestep and updated latents, at most once per iteration.
C15_CallbackEveryCallbackSteps ==
    InLoop =>
      /\ \A c \in DOMAIN lp_callbacks :
           LET cb == lp_callbacks[c]
           IN /\ lp_events[cb.events] = <<cb.i, "scheduler.step">>
              /\ cb.t = lp_timesteps[cb.i + 1]
              /\ cb.latents = cb.i + 1
              /\ \A d \in DOMAIN lp_callbacks : d # c => lp_callbacks[d].i # cb.i
      /\ (lp_pc = "done" /\ lp_args.callback) =>
           LET steps == GetTimesteps(lp_args.num_inference_steps, lp_args.strength,
                                     lp_args.order).num_inference_steps
           IN Len(lp_callbacks) = CeilDiv(steps, lp_args.callback_steps)

Encoders == {pt_te} \cup (IF pt_pipe.has2 THEN {pt_te2} ELSE {})
NowPatch == [unet |-> pt_unet, te |-> pt_te, te2 |-> pt_te2]
HoldsLora(st) ==
    \/ st.unet
    \/ \E p \in Projs : st.te[p].lora
    \/ (pt_pipe.has2 /\ \E p \in Projs : st.te2[p].lora)

\* C13: after unload_lora_weights the unet's LoRA layers are None and every
\* projection of text_encoder (and of text_encoder_2 if present) has
\* lora_linear_layer None; on a pipeline that holds no LoRA (none loaded, or
\* just unloaded) the call completes without error and changes nothing.
C13_UnloadClearsEverything ==
    pt_last.op = "unload_lora_weights" =>
      /\ pt_last.err = "None"
      /\ ~HoldsLora(NowPatch)
      /\ ~HoldsLora(pt_last.before) => NowPatch = pt_last.before
      /\ pt_last.prev \in {"none", "unload_lora_weights"} => NowPatch = pt_last.before

\* unload_lora_weights has cleared a pipeline whose unet held LoRA layers and
\* whose text encoder had patched attention and MLP projections
C13_Witness ==
    /\ pt_last.op = "unload_lora_weights"
    /\ pt_last.before.unet
    /\ pt_last.before.te["q_proj"].lora
    /\ pt_last.before.te["fc2"].lora
    /\ IsPatched(pt_te["fc2"])
    /\ ~pt_te["fc2"].lora

\* C18: after any number of loads into a text encoder every projection is at most
\* one PatchedLoraProjection directly around the original linear layer, the four
\* attention projections are patched together, and a load that returns leaves
\* them (and fc1, fc2 with MLP keys) patched with their LoRA layers.
C18_SingleWrapperPatchedTogether ==
    /\ \A te \in Encoders :
         /\ \A p \in Projs : te[p].wraps <= 1
         /\ \A p \in AttnProjs : IsPatched(te[p]) <=> IsPatched(te["q_proj"])
    /\ (pt_last.op = "_modify_text_encoder" /\ pt_last.err = "None") =>
         LET te == IF pt_last.target = "text_encoder" THEN pt_te ELSE pt_te2
         IN \A p \in AttnProjs \cup (IF pt_last.patch_mlp THEN MlpProjs ELSE {}) :
              te[p] = [wraps |-> 1, lora |-> TRUE]

\* a second load with MLP keys into a text encoder that was already patched
C18_Witness ==
    /\ pt_last.op = "_modify_text_encoder"
    /\ pt_last.target = "text_encoder"
    /\ pt_last.err = "None"
    /\ pt_last.patch_mlp
    /\ pt_last.before.te["q_proj"] = [wraps |-> 1, lora |-> TRUE]
    /\ pt_last.before.te["fc1"] = [wraps |-> 1, lora |-> TRUE]
    /\ pt_te["fc1"] = [wraps |-> 1, lora |-> TRUE]

\* C19 as stated: _modify_text_encoder raises the network_alphas ValueError
\* exactly when network_alphas was non-empty on entry and a key of it was not
\* consumed by a patched module; otherwise it does not raise and returns the
\* parameters of the projections it created.
C19_ValueErrorExactlyOnLeftoverAlphas ==
    pt_last.op = "_modify_text_encoder" =>
      LET al       == pt_last.network_alphas
          leftover == ~al.none /\ (al.keys \ ConsumedAlphas(pt_last.patch_mlp)) # {}
      IN /\ (pt_last.err = "ValueError: network_alphas") <=> leftover
         /\ ~leftover =>
              /\ pt_last.err = "None"
              /\ pt_last.params = AttnProjs \cup (IF pt_last.patch_mlp THEN MlpProjs ELSE {})

\* C17 as stated: after any sequence of fuse_lora, unfuse_lora and
\* unload_lora_weights calls, with any flag values, num_fused_loras is never
\* negative.
C17_NumFusedLorasNeverNegative == num_fused_loras >= 0

TextEncoderErrors == {"KeyError", "ValueError: network_alphas"}

\* C20: load_lora_weights performs no recovery.  The unet is loaded first and
\* the text encoders only after it; when the unet load raises, no text encoder
\* is touched; when a text encoder load raises, the call raises that error and
\* the unet keeps the LoRA layers it was given.  The leftover-network_alphas
\* ValueError leaves the text encoder patched.
C20_NoRecoveryOnFailure ==
    /\ (ld_args.call \in TopCalls /\ ld_pc \in {"returned", "raised"}) =>
         /\ \A j \in DOMAIN ld_log :
              /\ (ld_log[j] = "unet") <=> (j = 1)
              /\ ld_log[j] = "text_encoder_2" => j = Len(ld_log)
         /\ (ld_err = "load_attn_procs raised") =>
              /\ ld_pc = "raised"
              /\ ld_log = <<"unet">>
              /\ te_lora = Unpatched /\ te2_lora = Unpatched
         /\ (ld_err \in TextEncoderErrors) =>
              /\ ld_pc = "raised"
              /\ Len(ld_log) >= 2
              /\ unet_lora.loaded
              /\ unet_lora.sd = UnetPayload(ld_sd.sd, NoAlphas).sd
         /\ (ld_pc = "returned") => (ld_err = "None" /\ unet_lora.loaded)
    /\ (ld_pc = "raised" /\ ld_err = "ValueError: network_alphas") =>
         LET target == IF ld_log[Len(ld_log)] = "text_encoder_2" THEN te2_lora ELSE te_lora
         IN target.patched /\ target.sd = {}

\* a top-level load whose unet part went in and whose text encoder part raised
C20_Witness ==
    /\ ld_args.call = "load_lora_weights"
    /\ ld_pc = "raised"
    /\ ld_err \in TextEncoderErrors
    /\ ld_log[Len(ld_log)] # "unet"
    /\ unet_lora.loaded
    /\ unet_lora.sd # {}

\* the write events of the log
WriteEvents == {j \in DOMAIN sv_events : sv_events[j].op = "write"}

\* C14 as stated: when exactly one process of the run passes
\* is_main_process=True, only that process creates the directory and writes
\* the weight file; a call with is_main_process=False touches nothing.
C14_OnlyMainProcessWrites ==
    (Cardinality({p \in Procs : sv_args.is_main_process[p]}) = 1) =>
      \A j \in DOMAIN sv_events : sv_args.is_main_process[sv_events[j].proc]

\* C16 as stated: the SDXL save_lora_weights raises ValueError when no layer
\* set is given; otherwise it does not raise that error, and the state dict it
\* writes holds, for every layer set passed, each parameter under
\* "unet.<name>", "text_encoder.<name>" or "text_encoder_2.<name>", and
\* nothing else.  (A layer set counts as given when it is not None and not
\* empty.)
C16_SDXLSaveWritesEveryLayerSet ==
    sv_args.sdxl =>
      LET a     == sv_args
          given == Truthy(a.unet) \/ Truthy(a.te) \/ Truthy(a.te2)
          all   == PackWeights(a.unet, UNET_NAME, "unet")
                   \cup PackWeights(a.te, TEXT_ENCODER_NAME, "text_encoder")
                   \cup PackWeights(a.te2, TEXT_ENCODER_2, "text_encoder_2")
      IN /\ \A p \in Procs :
              /\ sv_pc[p] # "ready" => ((sv_pc[p] = "raised") <=> ~given)
              /\ sv_pc[p] = "raised" => sv_err[p] = "ValueError: You must pass at least one"
         /\ \A j \in WriteEvents : sv_events[j].state_dict = all

\* C21: lora_state_dict converts from the Kohya format exactly when every key
\* starts with "lora_te_", "lora_unet_", "lora_te1_" or "lora_te2_"; then the
\* block remapping is called first, and only when a unet_config was passed
\* (the SDXL mixin passes one), and network_alphas is the conversion's.
\* Otherwise the keys are returned unchanged and network_alphas is None.
C21_KohyaConvertedExactlyWhenAllKeysKohya ==
    (ld_kohya.called /\ ~ld_kohya.raised) =>
      LET sd0  == IF ld_args.is_dict THEN ld_args.sd ELSE ld_args.file_sd
          allK == \A j \in DOMAIN sd0 : \E p \in KohyaPrefixes : StartsWith(sd0[j].k, p)
          cfg  == ld_args.call = "sdxl_load_lora_weights"
      IN IF allK
         THEN /\ ld_kohya.steps =
                   (IF cfg THEN <<"_maybe_map_sgm_blocks_to_diffusers">> ELSE <<>>)
                   \o <<"_convert_kohya_lora_to_diffusers">>
              /\ ld_kohya.sd = ConvertKohya(sd0).sd
              /\ ld_kohya.alphas = ConvertKohya(sd0).alphas
              /\ ~ld_kohya.alphas.none
         ELSE /\ ld_kohya.steps = <<>>
              /\ ld_kohya.sd = sd0
              /\ ld_kohya.alphas.none

\* an SDXL load of a Kohya checkpoint: remapped, then converted
C21_Witness ==
    /\ ld_kohya.called
    /\ Len(ld_kohya.steps) = 2
    /\ Len(ld_kohya.sd) >= 2
    /\ \A j \in DOMAIN ld_kohya.sd : ~StartsWith(ld_kohya.sd[j].k, <<"lora">>)

WindowErrors ==
    {"ValueError: lengths differ", "ValueError: not one window per controlnet",
     "ValueError: window"}

\* the windows as check_inputs receives them are valid
ValidWindows(a0) ==
    LET start == BroadcastStart(a0)
        end   == BroadcastEnd(a0)
    IN /\ Len(start) = Len(end)
       /\ a0.multi => Len(start) = a0.nets
       /\ \A k \in DOMAIN start : 0 <= start[k] /\ start[k] < end[k] /\ end[k] <= Den

\* C22: no denoising step runs with an invalid control-guidance window.  A call
\* whose windows differ in length, are not one per controlnet (several
\* controlnets), or hold a pair without 0 <= start < end <= 1 is rejected by
\* check_inputs (with the window ValueError unless the scale test before it
\* already raised) before the timesteps are set and before any model is
\* invoked; every step that runs has a valid window for each controlnet.
C22_NoStepWithInvalidWindow ==
    /\ (lp_pc # "call" /\ ~ValidWindows(lp_in0)) =>
         /\ lp_pc = "raised"
         /\ lp_pre.err \in WindowErrors \cup {"TypeError: scale", "ValueError: nested scale"}
         /\ (IF lp_in0.multi THEN ~lp_in0.scale_nested ELSE ~lp_in0.scale.list)
              => lp_pre.err \in WindowErrors
         /\ lp_pre.calls = <<>>
         /\ ~lp_pre.scheduler_set
         /\ lp_timesteps = <<>>
         /\ lp_events = <<>>
    /\ (lp_events # <<>>) =>
         /\ Len(lp_args.start.v) = Len(lp_args.end.v)
         /\ \A k \in DOMAIN lp_args.start.v :
              /\ 0 <= lp_args.start.v[k]
              /\ lp_args.start.v[k] < lp_args.end.v[k]
              /\ lp_args.end.v[k] <= Den
         /\ lp_args.multi => Len(lp_args.start.v) = lp_args.nets

\* several controlnets, a window rejected by check_inputs, nothing done
C22_Witness ==
    /\ lp_pc = "raised"
    /\ lp_in0.multi
    /\ lp_pre.err = "ValueError: window"
    /\ \E k \in DOMAIN BroadcastStart(lp_in0) : BroadcastStart(lp_in0)[k] = BroadcastEnd(lp_in0)[k]
    /\ lp_pre.calls = <<>>

\* C23 as stated: with several controlnets, a list
\* controlnet_conditioning_scale whose length is not the number of controlnets,
\* or a nested list, makes check_inputs raise ValueError; a float is broadcast
\* to one scale per controlnet; so at every denoising step each controlnet has
\* exactly one conditioning scale.
C23_OneScalePerControlnet ==
    lp_in0.multi =>
      /\ (/\ lp_pc # "call"
          /\ lp_in0.scale.list
          /\ (Len(lp_in0.scale.v) # lp_in0.nets \/ lp_in0.scale_nested)) =>
            /\ lp_pc = "raised"
            /\ lp_pre.err \in WindowErrors \cup {"ValueError: nested scale"}
            /\ lp_pre.calls = <<>>
      /\ (lp_pc \notin {"call", "raised"} /\ ~lp_in0.scale.list) =>
            lp_args.scale = List(Repeat(lp_in0.scale.v[1], lp_in0.nets))
      /\ \A j \in DOMAIN lp_scales :
            /\ lp_scales[j].list
            /\ Len(lp_scales[j].v) = lp_in0.nets

RequiredInputErrors ==
    {"ValueError: callback_steps", "ValueError: both prompt and prompt_embeds",
     "ValueError: neither prompt nor prompt_embeds", "ValueError: prompt type",
     "ValueError: both negative_prompt and negative_prompt_embeds",
     "ValueError: embeds shapes"}

\* C24: __call__ fails at once on missing or contradictory required inputs.
\* When callback_steps is not a positive integer, when both or neither of
\* prompt and prompt_embeds are given, when prompt is neither str nor list,
\* when negative_prompt and negative_prompt_embeds are both given, or when the
\* two embeddings differ in shape, check_inputs raises ValueError, and then no
\* text encoder, controlnet, unet, VAE or scheduler call has been made, the
\* scheduler's timesteps are not set and no lora scale is stored.
C24_FailsBeforeAnySideEffect ==
    LET a0       == lp_in0
        bad_cs   == a0.callback_steps_type # "int" \/ a0.callback_steps <= 0
        both     == a0.prompt # "None" /\ a0.prompt_embeds # 0
        neither  == a0.prompt = "None" /\ a0.prompt_embeds = 0
        bad_type == a0.prompt \notin {"None", "str", "list"}
        both_neg == a0.negative_prompt /\ a0.negative_prompt_embeds # 0
        shapes   == /\ a0.prompt_embeds # 0 /\ a0.negative_prompt_embeds # 0
                    /\ a0.prompt_embeds # a0.negative_prompt_embeds
    IN (lp_pc # "call" /\ (bad_cs \/ both \/ neither \/ bad_type \/ both_neg \/ shapes)) =>
         /\ lp_pc = "raised"
         /\ lp_pre.err \in RequiredInputErrors
         /\ bad_cs => lp_pre.err = "ValueError: callback_steps"
         /\ lp_pre.calls = <<>>
         /\ ~lp_pre.scheduler_set
         /\ ~lp_pre.lora_scale_set
         /\ lp_timesteps = <<>>
         /\ lp_embeds = <<>>
         /\ lp_events = <<>>
         /\ lp_latents = 0

\* embeddings of different shapes, with a lora scale that would have been stored
C24_Witness ==
    /\ lp_pc = "raised"
    /\ lp_pre.err = "ValueError: embeds shapes"
    /\ lp_in0.lora_scale
    /\ ~lp_pre.lora_scale_set
    /\ lp_pre.calls = <<>>

\* B * n: prompts times images per prompt, of the arguments as passed
EffectiveBatch == BatchSize(lp_in0) * lp_in0.num_images_per_prompt

\* C25: for accepted inputs whose init-image count is 1 or B*n, at every
\* denoising step the control image batch equals the batch of the latents fed
\* to the controlnet, and the residuals handed to the unet have the batch of
\* the unet's latent input: B*n without guidance, 2*B*n with guidance.  In
\* guess mode with guidance the controlnet runs on B*n with the conditional
\* half of the embeddings, and zeros are put in front of its residuals.
C25_BatchSizesMatch ==
    (lp_in0.images \in {1, EffectiveBatch}) =>
      \A j \in DOMAIN lp_shapes :
        LET sh    == lp_shapes[j]
            cfg   == lp_in0.guidance_scale > 10
            split == cfg /\ lp_in0.guess_mode
        IN /\ sh.controlnet_cond = sh.control_model_input
           /\ sh.controlnet_prompt_embeds = sh.control_model_input
           /\ sh.residuals_batch = sh.latent_model_input
           /\ sh.encoder_hidden_states = sh.latent_model_input
           /\ sh.latent_model_input = IF cfg THEN 2 * EffectiveBatch ELSE EffectiveBatch
           /\ sh.control_model_input = IF cfg /\ ~split THEN 2 * EffectiveBatch
                                       ELSE EffectiveBatch
           /\ sh.residuals = IF split THEN <<"zeros", "controlnet">> ELSE <<"controlnet">>

\* guess mode under guidance, two prompts with two images each, one init image
C25_Witness ==
    /\ Len(lp_shapes) >= 1
    /\ lp_in0.guess_mode
    /\ lp_in0.guidance_scale > 10
    /\ EffectiveBatch = MaxBatch * MaxBatch
    /\ lp_in0.images = 1
    /\ lp_in0.control_images = MaxBatch
    /\ lp_shapes[1].control_model_input = EffectiveBatch
    /\ lp_shapes[1].residuals_batch = 2 * EffectiveBatch

\* prepare_latents was called in this run
PreparedLatents ==
    \E j \in DOMAIN lp_pre.calls : lp_pre.calls[j] = "prepare_latents"

\* C26 as stated: prepare_latents returns latents of batch B*n.  With m init
\* images, B*n > m and B*n a multiple of m gives exactly B*n latents and only
\* a deprecation warning; B*n > m and not a multiple raises ValueError; a
\* generator list whose length is not B*n raises ValueError.
C26_LatentsHaveEffectiveBatch ==
    PreparedLatents =>
      LET bn  == EffectiveBatch
          m   == lp_in0.images
          gen == lp_in0.generator
      IN /\ (gen # 0 /\ gen # bn) => lp_pre.err = "ValueError: generator list"
         /\ (~(gen # 0 /\ gen # bn) /\ bn > m /\ bn % m = 0) =>
              /\ lp_pre.err = "None"
              /\ lp_pre.warned
              /\ lp_pre.latents = bn
         /\ (~(gen # 0 /\ gen # bn) /\ bn > m /\ bn % m # 0) =>
              lp_pre.err = "ValueError: cannot duplicate image"
         /\ (lp_pre.err = "None") => lp_pre.latents = bn

\* C27 as stated: for n >= 1 inference steps and any strength passed to
\* __call__, the step count get_timesteps returns lies between 0 and n and is
\* min(floor(n * strength), n); the timesteps it returns are the suffix of the
\* scheduler's list from index (n - count) * scheduler.order; the loop runs
\* once per returned timestep.
C27_StrengthTruncatesSchedule ==
    (lp_pc \notin {"call", "raised"}) =>
      LET n     == lp_in0.num_inference_steps
          o     == lp_in0.order
          count == lp_pre.num_inference_steps
          all   == SchedulerTimesteps(n, o)
      IN /\ 0 <= count /\ count <= n
         /\ count = Min((n * lp_in0.strength) \div Den, n)
         /\ lp_timesteps = SubSeq(all, (n - count) * o + 1, Len(all))
         /\ lp_pc = "done" => lp_iters = Len(lp_timesteps)

====
